---- MODULE Spec2Model ----
(***************************************************************************)
(* A model of the Wayfair ad optimizer: the recommendation scorers of      *)
(* analyzers/bid_optimizer.py, analyzers/budget_allocator.py,              *)
(* analyzers/product_analyzer.py and analyzers/negative_keyword_finder.py, *)
(* the validation of data_ingestion/data_validator.py, the run of main.py  *)
(* and the jobs of app.py.                                                 *)
(*                                                                         *)
(* Numbers.  Money is held in cents, percentages that the code rounds to   *)
(* one decimal in tenths of a percent.  Every intermediate value the code  *)
(* computes in floating point is computed here as an exact fraction        *)
(* <<numerator, denominator>>; round(x, 2) and round(x, 1) are             *)
(* RoundHalfEven.  The input sets hold no value whose bound is an exact    *)
(* half cent, where the binary representation would decide the rounding.   *)
(*                                                                         *)
(* Rows.  The analyzers read rows built from vars(entity); a row's derived *)
(* columns (roas, ctr, conversion_rate) are the properties of              *)
(* data_ingestion/models.py.                                               *)
(***************************************************************************)
EXTENDS Integers, Sequences, FiniteSets, TLC

VARIABLES
    pc,           \* position of the analyzer being run
    kw_df,        \* optimize_bids: the keyword rows
    kw_i,         \* optimize_bids: index of the next row of the loop
    bid_recs,     \* optimize_bids: recommendations
    campaign_metrics,          \* optimize_budgets: the campaign rows with their metrics
    total_budget_constraint,   \* optimize_budgets: the constraint in cents, 0 for None
    budget_recs,               \* optimize_budgets: recommendations
    prod_df,        \* analyze_products: the product rows
    segmentation,   \* analyze_products: the ProductSegmentation, <<>> before it is built
    neg_in,         \* generate_negative_keywords: the detectors' recommendations
    neg_recs,       \* generate_negative_keywords: the list it returns
    campaigns,      \* run_full_optimization: the parsed campaigns
    keywords,       \* run_full_optimization: the parsed keywords
    search_terms,   \* run_full_optimization: the parsed search terms
    products,       \* run_full_optimization: the parsed products
    validations,    \* run_full_optimization: the ValidationResults
    steps_run,      \* run_full_optimization: the analyzers and outputs run so far
    job_queue,      \* app.py: job_queue[job_id], what the job's files hold
    job_status,     \* app.py: job_status[job_id]['status']
    job_at,         \* app.py: the position of each job's thread
    bulk_uploads,   \* the files of reports/bulk_uploads, oldest first
    results_folder, \* app.py: the files of results/<job_id>
    now,            \* datetime.now(), in seconds
    st_df,                    \* analyze_search_terms: the search term rows
    existing_keyword_texts,   \* analyze_search_terms: the lowered keyword texts
    st_i,                     \* analyze_search_terms: index of the next row
    keyword_recommendations   \* analyze_search_terms: recommendations

bid_vars == <<kw_df, kw_i, bid_recs>>

budget_vars == <<campaign_metrics, total_budget_constraint, budget_recs>>

product_vars == <<prod_df, segmentation>>

negative_vars == <<neg_in, neg_recs>>

run_vars ==
    <<campaigns, keywords, search_terms, products, validations, steps_run>>

job_vars ==
    <<job_queue, job_status, job_at, bulk_uploads, results_folder, now>>

expansion_vars ==
    <<st_df, existing_keyword_texts, st_i, keyword_recommendations>>

vars ==
    <<pc, bid_vars, budget_vars, product_vars, negative_vars, run_vars,
      job_vars, expansion_vars>>

----------------------------------------------------------------------------
(* Arithmetic *)

Abs(x) == IF x < 0 THEN -x ELSE x

Min2(a, b) == IF b < a THEN b ELSE a

Max2(a, b) == IF b > a THEN b ELSE a

RECURSIVE GCD(_, _)
GCD(a, b) == IF b = 0 THEN a ELSE GCD(b, a % b)

\* The fraction n/d (d # 0) in lowest terms with a positive denominator.
Rat(n, d) ==
    LET g == GCD(Abs(n), Abs(d))
        s == IF d < 0 THEN -1 ELSE 1
    IN  <<s * (n \div g), s * (d \div g)>>

RInt(n) == <<n, 1>>

RMul(a, b) ==
    LET x == Rat(a[1], b[2])
        y == Rat(b[1], a[2])
    IN  Rat(x[1] * y[1], x[2] * y[2])

RDiv(a, b) == RMul(a, Rat(b[2], b[1]))

RAdd(a, b) == Rat(a[1] * b[2] + b[1] * a[2], a[2] * b[2])

RSub(a, b) == RAdd(a, <<-b[1], b[2]>>)

RAbs(a) == <<Abs(a[1]), a[2]>>

\* a < b for fractions with positive denominators, by quotient and
\* remainder (no cross product).
RECURSIVE RLess(_, _)
RLess(a, b) ==
    LET qa == a[1] \div a[2]
        qb == b[1] \div b[2]
        ra == a[1] % a[2]
        rb == b[1] % b[2]
    IN  IF qa # qb THEN qa < qb
        ELSE IF rb = 0 THEN FALSE
        ELSE IF ra = 0 THEN TRUE
        ELSE RLess(<<b[2], rb>>, <<a[2], ra>>)

RLeq(a, b) == ~RLess(b, a)

RMin(a, b) == IF RLess(b, a) THEN b ELSE a

RMax(a, b) == IF RLess(a, b) THEN b ELSE a

\* Python's round(): to the nearest integer, an exact half to the even one.
RoundHalfEven(a) ==
    LET q == a[1] \div a[2]
        r == a[1] % a[2]
    IN  IF 2 * r < a[2] THEN q
        ELSE IF 2 * r > a[2] THEN q + 1
        ELSE IF q % 2 = 0 THEN q ELSE q + 1

\* round(n + a) for an integer n, without forming the numerator of the sum.
RoundSum(n, a) ==
    LET q == n + (a[1] \div a[2])
        r == a[1] % a[2]
    IN  IF 2 * r < a[2] THEN q
        ELSE IF 2 * r > a[2] THEN q + 1
        ELSE IF q % 2 = 0 THEN q ELSE q + 1

----------------------------------------------------------------------------
(* Text *)

Lower(c) ==
    CASE c = "S" -> "s"
      [] c = "B" -> "b"
      [] OTHER -> c

LowerText(t) == [i \in 1..Len(t) |-> Lower(t[i])]

\* str.split()[0]: the characters before the first blank.
RECURSIVE FirstWord(_)
FirstWord(t) ==
    IF t = <<>> \/ Head(t) = " " THEN <<>>
    ELSE <<Head(t)>> \o FirstWord(Tail(t))

\* str.contains(w, case=False): w occurs somewhere in t, letter case aside.
Contains(t, w) ==
    \E i \in 0..(Len(t) - Len(w)) :
        \A j \in 1..Len(w) : Lower(t[i + j]) = Lower(w[j])

----------------------------------------------------------------------------
(* data_ingestion/models.py: derived properties of a keyword row *)

Keyword_roas(k) ==
    IF k.spend > 0 THEN Rat(k.revenue, k.spend) ELSE RInt(0)

\* the click-through rate as a fraction of 1
Keyword_ctr_as_fraction(k) ==
    IF k.impressions > 0 THEN Rat(k.clicks, k.impressions) ELSE RInt(0)

\* in percent
Keyword_ctr(k) ==
    IF k.impressions > 0 THEN Rat(k.clicks * 100, k.impressions) ELSE RInt(0)

\* in percent
Keyword_conversion_rate(k) ==
    IF k.clicks > 0 THEN Rat(k.conversions * 100, k.clicks) ELSE RInt(0)

----------------------------------------------------------------------------
(* analyzers/bid_optimizer.py: BidOptimizationEngine *)

target_roas == 3

\* 30% max change per cycle
max_bid_change == <<3, 10>>

\* cents
min_bid == 50

\* cents
max_bid == 1000

pause_threshold_clicks == 100

\* percent
pause_threshold_ctr == <<1, 10>>

\* The target CPC in cents, as a fraction.
calculate_target_cpc(keyword) ==
    LET avg_order_value ==
            IF keyword.conversions = 0 THEN RInt(10000)
            ELSE Rat(keyword.revenue, keyword.conversions)
        estimated_cr ==
            IF keyword.conversions = 0 THEN Rat(1, 100)
            ELSE RDiv(Keyword_conversion_rate(keyword), RInt(100))
        base == RDiv(RMul(avg_order_value, estimated_cr), RInt(target_roas))
        roas == Keyword_roas(keyword)
        target_cpc ==
            IF RLess(RMul(RInt(target_roas), <<3, 2>>), roas)
            THEN RMul(base, <<6, 5>>)
            ELSE IF RLess(roas, RMul(RInt(target_roas), <<1, 2>>))
            THEN RMul(base, <<7, 10>>)
            ELSE base
    IN  RMax(RInt(min_bid), RMin(target_cpc, RInt(max_bid)))

\* The rows whose text contains the keyword's first word, other than the
\* keyword itself, with more than 100 impressions.
similar_keywords(keyword, all_keywords) ==
    SelectSeq(all_keywords,
        LAMBDA o : /\ Contains(o.keyword_text, FirstWord(keyword.keyword_text))
                   /\ o.keyword_id # keyword.keyword_id
                   /\ o.impressions > 100)

\* s in non-decreasing order
RECURSIVE SortInts(_)
SortInts(s) ==
    IF s = <<>> THEN <<>>
    ELSE LET m == CHOOSE i \in 1..Len(s) : \A j \in 1..Len(s) : s[i] <= s[j]
         IN  <<s[m]>> \o SortInts(SubSeq(s, 1, m - 1) \o SubSeq(s, m + 1, Len(s)))

\* pandas Series.median(): the middle value, or the mean of the two middle ones.
Median(s) ==
    LET o == SortInts(s)
        n == Len(o)
    IN  IF n % 2 = 1 THEN RInt(o[(n + 1) \div 2])
        ELSE Rat(o[n \div 2] + o[n \div 2 + 1], 2)

\* <<>> stands for None, <<m>> for the median m.
get_competitor_avg_bid(keyword, all_keywords) ==
    LET sim == similar_keywords(keyword, all_keywords)
    IN  IF Len(sim) > 0
        THEN <<Median([i \in 1..Len(sim) |-> sim[i].current_bid])>>
        ELSE <<>>

\* Of the projection only revenue_change is read again (by the sort of
\* optimize_bids).
calculate_expected_impact(keyword, current_bid, new_bid) ==
    LET bid_ratio == IF current_bid > 0 THEN Rat(new_bid, current_bid) ELSE RInt(1)
        d == RSub(bid_ratio, RInt(1))
        impression_multiplier == RAdd(RInt(1), RMul(d, <<1, 2>>))
        click_multiplier ==
            RMul(impression_multiplier, RAdd(RInt(1), RMul(d, <<1, 5>>)))
        expected_clicks == RMul(RInt(keyword.clicks), click_multiplier)
        expected_conversions ==
            RMul(expected_clicks, RDiv(Keyword_conversion_rate(keyword), RInt(100)))
        order_value ==
            IF keyword.conversions > 0
            THEN Rat(keyword.revenue, keyword.conversions)
            ELSE RInt(10000)
        expected_revenue == RMul(expected_conversions, order_value)
    IN  [revenue_change |-> RSub(expected_revenue, RInt(keyword.revenue))]

\* What a division by a current bid of 0 raises: a row holds Python numbers.
ZeroDivisionError == [raised |-> "ZeroDivisionError"]

Raised(result) == "raised" \in DOMAIN result

\* percentages in tenths of a percent
BidChangePct(recommended_bid, current_bid) ==
    RoundHalfEven(Rat((recommended_bid - current_bid) * 1000, current_bid))

\* The mutant of create_increase_recommendation: the competitor's bid is
\* followed as soon as it is more than 20% above the capped bid.
create_increase_recommendation_above_120(keyword, target_bid, all_keywords) ==
    LET current_bid == keyword.current_bid
        max_increase == RMul(RInt(current_bid), RAdd(RInt(1), max_bid_change))
        first_bid == RoundHalfEven(RMin(target_bid, max_increase))
        bid_change_pct == BidChangePct(first_bid, current_bid)
        competitor_avg_bid == get_competitor_avg_bid(keyword, all_keywords)
        recommended_bid ==
            IF /\ competitor_avg_bid # <<>>
               /\ competitor_avg_bid[1] # RInt(0)
               /\ RLess(RMul(RInt(first_bid), <<6, 5>>), competitor_avg_bid[1])
            THEN RoundHalfEven(
                     RMin(RMul(competitor_avg_bid[1], <<9, 10>>), max_increase))
            ELSE first_bid
    IN  IF current_bid = 0 THEN ZeroDivisionError
        ELSE
        [keyword_id |-> keyword.keyword_id,
         current_bid |-> current_bid,
         recommended_bid |-> recommended_bid,
         bid_change_percentage |-> bid_change_pct,
         action |-> "increase",
         expected_impact |->
             calculate_expected_impact(keyword, current_bid, recommended_bid)]

create_increase_recommendation(keyword, target_bid, all_keywords) ==
    LET current_bid == keyword.current_bid
        max_increase == RMul(RInt(current_bid), RAdd(RInt(1), max_bid_change))
        first_bid == RoundHalfEven(RMin(target_bid, max_increase))
        bid_change_pct == BidChangePct(first_bid, current_bid)
        competitor_avg_bid == get_competitor_avg_bid(keyword, all_keywords)
        recommended_bid ==
            IF /\ competitor_avg_bid # <<>>
               /\ competitor_avg_bid[1] # RInt(0)
               /\ RLess(RInt(first_bid), RMul(competitor_avg_bid[1], <<4, 5>>))
            THEN RoundHalfEven(
                     RMin(RMul(competitor_avg_bid[1], <<9, 10>>), max_increase))
            ELSE first_bid
    IN  IF current_bid = 0 THEN ZeroDivisionError    \* line 103
        ELSE
        [keyword_id |-> keyword.keyword_id,
         current_bid |-> current_bid,
         recommended_bid |-> recommended_bid,
         bid_change_percentage |-> bid_change_pct,
         action |-> "increase",
         expected_impact |->
             calculate_expected_impact(keyword, current_bid, recommended_bid)]

create_decrease_recommendation(keyword, target_bid) ==
    LET current_bid == keyword.current_bid
        max_decrease == RMul(RInt(current_bid), RSub(RInt(1), max_bid_change))
        recommended_bid ==
            RoundHalfEven(RMax(RMax(target_bid, max_decrease), RInt(min_bid)))
    IN  IF current_bid = 0 THEN ZeroDivisionError    \* line 132
        ELSE
        [keyword_id |-> keyword.keyword_id,
         current_bid |-> current_bid,
         recommended_bid |-> recommended_bid,
         bid_change_percentage |-> BidChangePct(recommended_bid, current_bid),
         action |-> "decrease",
         expected_impact |->
             calculate_expected_impact(keyword, current_bid, recommended_bid)]

\* a pause that leaves the bid at the floor instead of 0
create_pause_recommendation_at_min_bid(keyword) ==
    [keyword_id |-> keyword.keyword_id,
     current_bid |-> keyword.current_bid,
     recommended_bid |-> min_bid,
     bid_change_percentage |-> BidChangePct(min_bid, keyword.current_bid),
     action |-> "pause",
     expected_impact |-> [spend_savings |-> Rat(keyword.spend, 30)]]

create_pause_recommendation(keyword) ==
    [keyword_id |-> keyword.keyword_id,
     current_bid |-> keyword.current_bid,
     recommended_bid |-> 0,
     bid_change_percentage |-> -1000,
     action |-> "pause",
     expected_impact |-> [spend_savings |-> Rat(keyword.spend, 30)]]

\* The mutant of score_keyword_bid: an increase only above a ratio of 1.2.
score_keyword_bid_increase_above_120(keyword, all_keywords) ==
    IF /\ keyword.clicks >= pause_threshold_clicks
       /\ keyword.conversions = 0
    THEN <<create_pause_recommendation(keyword)>>
    ELSE IF /\ RLess(Keyword_ctr(keyword), pause_threshold_ctr)
            /\ keyword.impressions > 1000
    THEN <<create_pause_recommendation(keyword)>>
    ELSE
        LET target_cpc == calculate_target_cpc(keyword)
            current_cpc ==
                IF keyword.clicks > 0 THEN Rat(keyword.spend, keyword.clicks)
                ELSE RInt(keyword.current_bid)
            bid_ratio ==
                IF RLess(RInt(0), current_cpc) THEN RDiv(target_cpc, current_cpc)
                ELSE RInt(1)
        IN  IF RLess(<<12, 10>>, bid_ratio)
            THEN <<create_increase_recommendation(keyword, target_cpc, all_keywords)>>
            ELSE IF RLess(bid_ratio, <<9, 10>>)
            THEN <<create_decrease_recommendation(keyword, target_cpc)>>
            ELSE <<>>

\* Lines 55-76 of _analyze_keyword_bid: the pause rules and the comparison of
\* the target CPC with the current CPC.  <<>> stands for None, <<r>> for the
\* recommendation r.
score_keyword_bid(keyword, all_keywords) ==
    IF /\ keyword.clicks >= pause_threshold_clicks
       /\ keyword.conversions = 0
    THEN <<create_pause_recommendation(keyword)>>
    ELSE IF /\ RLess(Keyword_ctr(keyword), pause_threshold_ctr)
            /\ keyword.impressions > 1000
    THEN <<create_pause_recommendation(keyword)>>
    ELSE
        LET target_cpc == calculate_target_cpc(keyword)
            current_cpc ==
                IF keyword.clicks > 0 THEN Rat(keyword.spend, keyword.clicks)
                ELSE RInt(keyword.current_bid)
            bid_ratio ==
                IF RLess(RInt(0), current_cpc) THEN RDiv(target_cpc, current_cpc)
                ELSE RInt(1)
        IN  IF RLess(<<11, 10>>, bid_ratio)
            THEN <<create_increase_recommendation(keyword, target_cpc, all_keywords)>>
            ELSE IF RLess(bid_ratio, <<9, 10>>)
            THEN <<create_decrease_recommendation(keyword, target_cpc)>>
            ELSE <<>>

\* analyze_keyword_bid without its test of the impressions
analyze_keyword_bid_unfiltered(keyword, all_keywords) ==
    score_keyword_bid(keyword, all_keywords)

analyze_keyword_bid(keyword, all_keywords) ==
    IF keyword.impressions < 10 THEN <<>>
    ELSE score_keyword_bid(keyword, all_keywords)

\* The key of the sort of optimize_bids.
ImpactKey(rec) ==
    IF "revenue_change" \in DOMAIN rec.expected_impact
    THEN RAbs(rec.expected_impact.revenue_change)
    ELSE RInt(0)

\* sorted(..., key=..., reverse=True): stable, larger keys first.
RECURSIVE SortByImpact(_)
SortByImpact(s) ==
    IF s = <<>> THEN <<>>
    ELSE LET m == CHOOSE i \in 1..Len(s) :
                    /\ \A j \in 1..Len(s) : RLeq(ImpactKey(s[j]), ImpactKey(s[i]))
                    /\ \A j \in 1..(i - 1) : RLess(ImpactKey(s[j]), ImpactKey(s[i]))
         IN  <<s[m]>> \o SortByImpact(SubSeq(s, 1, m - 1) \o SubSeq(s, m + 1, Len(s)))

----------------------------------------------------------------------------
(* Inputs of optimize_bids *)

MaxKeywords == 2

\* "sofa" and "bed Sofa"
KeywordTexts ==
    { <<"s", "o", "f", "a">>,
      <<"b", "e", "d", " ", "S", "o", "f", "a">> }

\* cents
KeywordBids == {0, 30, 44, 52, 99, 100, 300}

\* counters of a reporting period; spend and revenue in cents
KeywordStats ==
    { [impressions |-> 5,    clicks |-> 100, conversions |-> 0, spend |-> 2000,  revenue |-> 0],
      [impressions |-> 5000, clicks |-> 100, conversions |-> 0, spend |-> 2000,  revenue |-> 0],
      [impressions |-> 5000, clicks |-> 4,   conversions |-> 0, spend |-> 200,   revenue |-> 0],
      [impressions |-> 5000, clicks |-> 50,  conversions |-> 5, spend |-> 2000,  revenue |-> 31000],
      [impressions |-> 5000, clicks |-> 50,  conversions |-> 0, spend |-> 10000, revenue |-> 0],
      [impressions |-> 5000, clicks |-> 50,  conversions |-> 0, spend |-> 2000,  revenue |-> 0],
      [impressions |-> 200,  clicks |-> 0,   conversions |-> 0, spend |-> 0,     revenue |-> 0] }

KeywordRow(id, text, bid, st) ==
    [keyword_id |-> id, keyword_text |-> text, current_bid |-> bid,
     impressions |-> st.impressions, clicks |-> st.clicks,
     conversions |-> st.conversions, spend |-> st.spend, revenue |-> st.revenue]

\* The combinations the batches are drawn from: the bid of the scenario is
\* tried with the counters of the scenario, the bid of 0 (validate_keywords
\* warns of it and lets it through) with the counters that are scored, the
\* bids of 44 (a ratio between 1.1 and 1.2) and of 30 (under min_bid / 1.3)
\* with no click, the longer text
\* (a competitor of the shorter one) with the bid of 300 and 50 clicks.
KeywordInputs ==
    { x \in KeywordTexts \X KeywordBids \X KeywordStats :
        /\ x[2] = 100 => x[3].spend = 10000 /\ Len(x[1]) = 4
        /\ x[2] \in {30, 44} => x[3].clicks = 0 /\ Len(x[1]) = 4
        /\ Len(x[1]) = 8 => x[2] = 300 /\ x[3].clicks = 50
        /\ x[2] = 0 => /\ x[3].clicks \in {0, 50}
                       /\ x[3].impressions >= 10
                       /\ Len(x[1]) = 4 }

\* The batch of the rows f picks; a row's keyword_id is its position
\* (validate_keywords rejects a batch with a repeated id).
KeywordBatch(f) ==
    [i \in DOMAIN f |-> KeywordRow(i, f[i][1], f[i][2], f[i][3])]

----------------------------------------------------------------------------
(* optimize_bids as a state machine *)

\* The analyzers share nothing: while one runs, the state of the others is
\* empty.
NoBids == kw_df = <<>> /\ kw_i = 1 /\ bid_recs = <<>>

NoBudgets ==
    campaign_metrics = <<>> /\ total_budget_constraint = 0 /\ budget_recs = <<>>

NoProducts == prod_df = <<>> /\ segmentation = <<>>

NoNegatives == neg_in = <<>> /\ neg_recs = <<>>

NoRun ==
    /\ campaigns = <<>> /\ keywords = <<>> /\ search_terms = <<>>
    /\ products = <<>> /\ validations = <<>> /\ steps_run = <<>>

NoExpansion ==
    /\ st_df = <<>> /\ existing_keyword_texts = {} /\ st_i = 1
    /\ keyword_recommendations = <<>>

NoJobs ==
    /\ job_queue = <<>> /\ job_status = <<>> /\ job_at = <<>>
    /\ bulk_uploads = <<>> /\ results_folder = <<>> /\ now = 0

\* optimize_bids is called with a list of keywords, which may be empty.
InitBids ==
    /\ pc = "bids_frames"
    /\ NoExpansion
    /\ \E n \in 0..MaxKeywords :
           \E f \in [1..n -> KeywordInputs] : kw_df = KeywordBatch(f)
    /\ kw_i = 1
    /\ bid_recs = <<>>
    /\ NoBudgets
    /\ NoProducts
    /\ NoNegatives
    /\ NoRun
    /\ NoJobs

\* lines 33-36: the frames are built and the campaign names merged in
BuildKeywordFrame ==
    /\ pc = "bids_frames"
    /\ kw_df # <<>>
    /\ pc' = "bids_loop"
    /\ UNCHANGED <<bid_vars, budget_vars, product_vars, negative_vars,
                 run_vars, job_vars,
                   expansion_vars>>

\* lines 33-36 on an empty list: pd.DataFrame([]) has no column, and the
\* merge on 'campaign_id' raises KeyError
BuildKeywordFrameRaises ==
    /\ pc = "bids_frames"
    /\ kw_df = <<>>
    /\ pc' = "bids_key_error"
    /\ UNCHANGED <<bid_vars, budget_vars, product_vars, negative_vars,
                 run_vars, job_vars,
                   expansion_vars>>

\* The analysis of the row raises.
AnalysisRaises(keyword, all_keywords) ==
    LET recommendation == analyze_keyword_bid(keyword, all_keywords)
    IN  recommendation # <<>> /\ Raised(recommendation[1])

\* one iteration of the loop over the rows
AnalyzeKeyword ==
    /\ pc = "bids_loop"
    /\ kw_i <= Len(kw_df)
    /\ LET recommendation == analyze_keyword_bid(kw_df[kw_i], kw_df)
       IN  /\ ~(recommendation # <<>> /\ Raised(recommendation[1]))
           /\ bid_recs' = bid_recs \o recommendation
    /\ kw_i' = kw_i + 1
    /\ UNCHANGED <<pc, kw_df, budget_vars, product_vars, negative_vars,
                 run_vars, job_vars,
                   expansion_vars>>

\* one iteration of the loop whose division by the current bid raises:
\* optimize_bids returns no list
AnalyzeKeywordRaises ==
    /\ pc = "bids_loop"
    /\ kw_i <= Len(kw_df)
    /\ AnalysisRaises(kw_df[kw_i], kw_df)
    /\ pc' = "bids_raised"
    /\ UNCHANGED <<kw_df, kw_i, bid_recs, budget_vars, product_vars, negative_vars,
                 run_vars, job_vars,
                   expansion_vars>>

\* the sort by projected revenue change, and the return
ReturnBids ==
    /\ pc = "bids_loop"
    /\ kw_i > Len(kw_df)
    /\ bid_recs' = SortByImpact(bid_recs)
    /\ pc' = "bids_done"
    /\ UNCHANGED <<kw_df, kw_i, budget_vars, product_vars, negative_vars,
                 run_vars, job_vars,
                   expansion_vars>>

NextBids ==
    \/ BuildKeywordFrame
    \/ BuildKeywordFrameRaises
    \/ AnalyzeKeyword
    \/ AnalyzeKeywordRaises
    \/ ReturnBids

SpecBids == InitBids /\ [][NextBids]_vars

\* The row a recommendation was made for.
RowOf(rec) == kw_df[rec.keyword_id]

BidsReturned == pc = "bids_done"

----------------------------------------------------------------------------
(* Properties of optimize_bids *)

C4_NoRecommendationBelowTenImpressions ==
    \A i \in 1..Len(bid_recs) : RowOf(bid_recs[i]).impressions >= 10

\* optimize_bids has returned for a batch holding a keyword with fewer than 10
\* impressions, 100 clicks and no conversion, and no recommendation names it.
C4_Witness ==
    /\ BidsReturned
    /\ \E k \in 1..Len(kw_df) :
           /\ kw_df[k].impressions < 10
           /\ kw_df[k].clicks >= pause_threshold_clicks
           /\ kw_df[k].conversions = 0
           /\ \A i \in 1..Len(bid_recs) : bid_recs[i].keyword_id # k

\* The recommendations made for the row of keyword_id id.
BidRecsOf(id) == {i \in 1..Len(bid_recs) : bid_recs[i].keyword_id = id}

\* The rows the loop has analyzed.
Analyzed == 1..(kw_i - 1)

\* The keyword of the scenario: 5000 impressions, 50 clicks, no conversion,
\* $100 spent, bid $1.00.
IsScenarioKeyword(k) ==
    /\ k.impressions = 5000
    /\ k.clicks = 50
    /\ k.conversions = 0
    /\ k.spend = 10000
    /\ k.current_bid = 100

C16_EmptyListReturnsEmpty ==
    (kw_df = <<>> /\ pc \in {"bids_key_error", "bids_done"}) =>
        pc = "bids_done" /\ bid_recs = <<>>

\* The pause rules of a keyword.
IsPaused(k) ==
    \/ k.clicks >= 100 /\ k.conversions = 0
    \/ k.clicks * 1000 < k.impressions /\ k.impressions > 1000

\* spend/clicks, or the current bid when there is no click
CurrentCpc(k) ==
    IF k.clicks > 0 THEN Rat(k.spend, k.clicks) ELSE RInt(k.current_bid)

\* target CPC / current CPC, for a current CPC above 0
BidRatio(k) == RDiv(calculate_target_cpc(k), CurrentCpc(k))

ActionsOf(id) == { bid_recs[i].action : i \in BidRecsOf(id) }

CappedBid(k) ==
    RoundHalfEven(RMin(calculate_target_cpc(k),
                       RMul(RInt(k.current_bid), <<13, 10>>)))

\* min(0.9 x estimate, current_bid x 1.30), to the cent
TowardCompetitor(k, estimate) ==
    RoundHalfEven(RMin(RMul(estimate, <<9, 10>>),
                       RMul(RInt(k.current_bid), <<13, 10>>)))

\* The increase recommendations follow the competitive-bid estimate exactly
\* when the estimate is above the capped bid times the factor.
IncreaseFollowsEstimateAbove(factor) ==
    \A i \in 1..Len(bid_recs) :
        bid_recs[i].action = "increase" =>
            LET k == RowOf(bid_recs[i])
                estimate == get_competitor_avg_bid(k, kw_df)
            IN  bid_recs[i].recommended_bid =
                    IF /\ estimate # <<>>
                       /\ RLess(RMul(RInt(CappedBid(k)), factor), estimate[1])
                    THEN TowardCompetitor(k, estimate[1])
                    ELSE CappedBid(k)

----------------------------------------------------------------------------
(* analyzers/budget_allocator.py: BudgetAllocationOptimizer *)

\* cents
min_budget == 1000

\* cents
max_budget == 100000

min_roas_threshold == <<3, 2>>

budget_target_roas == 3

budget_utilization_threshold == <<4, 5>>

historical_days == 30

\* A campaign row with the metrics the scorer reads.  efficiency_score and the
\* keyword roll-up columns are computed by the code and never read.
calculate_campaign_metrics(c) ==
    LET daily_spend == Rat(c.total_spend, historical_days)
        budget_utilization ==
            RMin(RDiv(daily_spend, RInt(c.daily_budget)), RInt(1))
        impression_share ==
            RMin(IF RLess(RInt(0), budget_utilization)
                 THEN RDiv(RInt(c.impressions),
                           RDiv(RInt(c.impressions), budget_utilization))
                 ELSE RInt(0),
                 RInt(100))
        impression_share_lost == RSub(RInt(100), impression_share)
        scalability_score ==
            RAdd(RMul(impression_share_lost, <<1, 2>>),
                 RMul(RMin(RDiv(c.roas, RInt(budget_target_roas)), RInt(2)),
                      RInt(25)))
    IN  [campaign_id |-> c.campaign_id,
         daily_budget |-> c.daily_budget,
         clicks |-> c.clicks,
         conversions |-> c.conversions,
         roas |-> c.roas,
         budget_utilization |-> budget_utilization,
         impression_share_lost |-> impression_share_lost,
         scalability_score |-> scalability_score]

\* percentages in tenths of a percent
BudgetChangePct(budget_change, current_budget) ==
    RoundHalfEven(Rat(budget_change * 1000, current_budget))

\* The recommendation record; expected_impact is left out: the optimizer
\* never reads it again.
BudgetRecommendation(campaign, recommended_budget, action, priority) ==
    [campaign_id |-> campaign.campaign_id,
     current_budget |-> campaign.daily_budget,
     recommended_budget |-> recommended_budget,
     budget_change |-> recommended_budget - campaign.daily_budget,
     budget_change_percentage |->
         BudgetChangePct(recommended_budget - campaign.daily_budget,
                         campaign.daily_budget),
     action |-> action,
     priority |-> priority]

\* <<>> stands for None (the change is at most 5%).
IncreaseOrNone(campaign, increase_factor, priority) ==
    LET current_budget == campaign.daily_budget
        recommended_budget ==
            RoundHalfEven(RMin(RMul(RInt(current_budget), increase_factor),
                               RInt(max_budget)))
    IN  IF RLeq(RInt(recommended_budget), RMul(RInt(current_budget), <<21, 20>>))
        THEN <<>>
        ELSE <<BudgetRecommendation(campaign, recommended_budget, "increase",
                                    priority)>>

HighRoas(campaign) ==
    RLess(RMul(RInt(budget_target_roas), <<3, 2>>), campaign.roas)

budget_create_increase_recommendation(campaign) ==
    LET base ==
            IF RLeq(<<19, 20>>, campaign.budget_utilization) THEN <<3, 2>>
            ELSE IF RLeq(<<17, 20>>, campaign.budget_utilization) THEN <<13, 10>>
            ELSE <<6, 5>>
        increase_factor ==
            IF HighRoas(campaign) THEN RMul(base, <<6, 5>>) ELSE base
    IN  IncreaseOrNone(campaign, increase_factor,
                       IF HighRoas(campaign) THEN 1 ELSE 2)

create_moderate_increase_recommendation(campaign) ==
    LET increase_factor ==
            RAdd(<<11, 10>>,
                 RMul(RDiv(campaign.scalability_score, RInt(100)), <<1, 5>>))
    IN  IncreaseOrNone(campaign, increase_factor, 3)

\* a decrease that pauses a campaign from 50 clicks without a conversion
budget_create_decrease_recommendation_pause_above_50(campaign) ==
    LET no_conversions == campaign.conversions = 0 /\ campaign.clicks > 50
    IN  IF no_conversions
        THEN <<BudgetRecommendation(campaign, 0, "pause", 5)>>
        ELSE <<BudgetRecommendation(campaign,
                   RoundHalfEven(RMax(RMul(RInt(campaign.daily_budget),
                                           IF RLess(campaign.roas, RInt(1))
                                           THEN <<1, 2>> ELSE <<7, 10>>),
                                      RInt(min_budget))),
                   "decrease", 4)>>

budget_create_decrease_recommendation(campaign) ==
    LET current_budget == campaign.daily_budget
        no_conversions == campaign.conversions = 0 /\ campaign.clicks > 50
        decrease_factor ==
            IF no_conversions THEN <<3, 10>>
            ELSE IF RLess(campaign.roas, RInt(1)) THEN <<1, 2>>
            ELSE IF RLess(campaign.roas, min_roas_threshold) THEN <<7, 10>>
            ELSE <<17, 20>>
        action ==
            IF no_conversions /\ campaign.clicks > 100 THEN "pause"
            ELSE "decrease"
        recommended_budget ==
            IF action = "pause" THEN 0
            ELSE RoundHalfEven(RMax(RMul(RInt(current_budget), decrease_factor),
                                    RInt(min_budget)))
    IN  <<BudgetRecommendation(campaign, recommended_budget, action,
                               IF action = "decrease" THEN 4 ELSE 5)>>

RECURSIVE SumBudgets(_)
SumBudgets(recs) ==
    IF recs = <<>> THEN 0
    ELSE Head(recs).recommended_budget + SumBudgets(Tail(recs))

\* the scaling applied to every recommendation, whatever its action
ScaleRecommendation_any_action(rec, scaling_factor) ==
    LET recommended_budget ==
            RoundSum(rec.current_budget,
                     RMul(RInt(rec.recommended_budget - rec.current_budget),
                          scaling_factor))
    IN  [rec EXCEPT
            !.recommended_budget = recommended_budget,
            !.budget_change = recommended_budget - rec.current_budget,
            !.budget_change_percentage =
                BudgetChangePct(recommended_budget - rec.current_budget,
                                rec.current_budget)]

\* One recommendation after the scaling of _apply_budget_constraint.
ScaleRecommendation(rec, scaling_factor) ==
    IF rec.action = "increase"
    THEN LET recommended_budget ==
                 RoundSum(rec.current_budget,
                          RMul(RInt(rec.recommended_budget - rec.current_budget),
                               scaling_factor))
         IN  [rec EXCEPT
                 !.recommended_budget = recommended_budget,
                 !.budget_change = recommended_budget - rec.current_budget,
                 !.budget_change_percentage =
                     BudgetChangePct(recommended_budget - rec.current_budget,
                                     rec.current_budget)]
    ELSE rec

\* the total taken over the increases alone
apply_budget_constraint_increases_total(recommendations, constraint) ==
    LET RECURSIVE SumIncreases(_)
        SumIncreases(recs) ==
            IF recs = <<>> THEN 0
            ELSE (IF Head(recs).action = "increase"
                  THEN Head(recs).recommended_budget ELSE 0)
                 + SumIncreases(Tail(recs))
        recommended_total == SumIncreases(recommendations)
    IN  IF recommended_total <= constraint THEN recommendations
        ELSE [i \in 1..Len(recommendations) |->
                 ScaleRecommendation(recommendations[i],
                                     Rat(constraint, recommended_total))]

apply_budget_constraint(recommendations, constraint) ==
    LET recommended_total == SumBudgets(recommendations)
    IN  IF recommended_total <= constraint THEN recommendations
        ELSE [i \in 1..Len(recommendations) |->
                 ScaleRecommendation(recommendations[i],
                                     Rat(constraint, recommended_total))]

\* the list left in the order of the three loops
SortByPriority_unsorted(s) == s

\* list.sort(key=priority): stable, smaller priorities first.
RECURSIVE SortByPriority(_)
SortByPriority(s) ==
    IF s = <<>> THEN <<>>
    ELSE LET m == CHOOSE i \in 1..Len(s) :
                    /\ \A j \in 1..Len(s) : s[i].priority <= s[j].priority
                    /\ \A j \in 1..(i - 1) : s[i].priority < s[j].priority
         IN  <<s[m]>> \o SortByPriority(SubSeq(s, 1, m - 1) \o SubSeq(s, m + 1, Len(s)))

RECURSIVE Flatten(_)
Flatten(ss) == IF ss = <<>> THEN <<>> ELSE Head(ss) \o Flatten(Tail(ss))

high_performers(campaign) ==
    /\ RLeq(RInt(budget_target_roas), campaign.roas)
    /\ RLeq(budget_utilization_threshold, campaign.budget_utilization)

opportunity_campaigns(campaign) ==
    /\ RLeq(min_roas_threshold, campaign.roas)
    /\ RLess(campaign.roas, RInt(budget_target_roas))
    /\ RLess(RInt(20), campaign.impression_share_lost)

poor_performers(campaign) == RLess(campaign.roas, min_roas_threshold)

\* lines 41-48: the loop over the high performers
ScoreHighPerformers(rows) ==
    Flatten([i \in 1..Len(rows) |->
                IF high_performers(rows[i])
                THEN budget_create_increase_recommendation(rows[i]) ELSE <<>>])

\* lines 50-58: the loop over the opportunity campaigns
ScoreOpportunityCampaigns(rows) ==
    Flatten([i \in 1..Len(rows) |->
                IF opportunity_campaigns(rows[i])
                THEN create_moderate_increase_recommendation(rows[i]) ELSE <<>>])

\* lines 60-66: the loop over the poor performers
ScorePoorPerformers(rows) ==
    Flatten([i \in 1..Len(rows) |->
                IF poor_performers(rows[i])
                THEN budget_create_decrease_recommendation(rows[i]) ELSE <<>>])

----------------------------------------------------------------------------
(* Inputs of optimize_budgets *)

MaxCampaigns == 2

\* cents
CampaignBudgets == {500, 10000, 90000}

\* total_spend of the 30 days, as a multiple of the daily budget
SpendMultiples == {15, 27, 30}

CampaignPerformances ==
    { [roas |-> <<0, 1>>, clicks |-> 150, conversions |-> 0],
      [roas |-> <<0, 1>>, clicks |-> 100, conversions |-> 0],
      [roas |-> <<0, 1>>, clicks |-> 60,  conversions |-> 0],
      [roas |-> <<1, 2>>, clicks |-> 150, conversions |-> 5],
      [roas |-> <<6, 5>>, clicks |-> 150, conversions |-> 5],
      [roas |-> <<2, 1>>, clicks |-> 150, conversions |-> 5],
      [roas |-> <<3, 1>>, clicks |-> 150, conversions |-> 5],
      [roas |-> <<5, 1>>, clicks |-> 150, conversions |-> 5] }

\* The combinations the batches are drawn from: a utilization that no rule
\* reads for the campaign's roas is held at one value.
CampaignInputs ==
    { x \in CampaignBudgets \X SpendMultiples \X CampaignPerformances :
        /\ RLess(x[3].roas, min_roas_threshold) => x[2] = 15 /\ x[1] # 90000
        /\ (RLeq(min_roas_threshold, x[3].roas)
              /\ RLess(x[3].roas, RInt(budget_target_roas)))
             => x[2] # 27 /\ x[1] # 90000
        /\ RLeq(RInt(budget_target_roas), x[3].roas) => x[2] # 15 }

CampaignRow(id, x) ==
    [campaign_id |-> id, daily_budget |-> x[1], total_spend |-> x[1] * x[2],
     impressions |-> 5000, clicks |-> x[3].clicks,
     conversions |-> x[3].conversions, roas |-> x[3].roas]

\* The batch of the rows f picks; a row's campaign_id is its position
\* (validate_campaigns makes the ids differ).
CampaignBatch(f) == [i \in DOMAIN f |-> CampaignRow(i, f[i])]

\* cents; 0 stands for None
BudgetConstraints == {0, 100, 15000}

----------------------------------------------------------------------------
(* optimize_budgets as a state machine *)

InitBudgets ==
    /\ pc = "budget_high"
    /\ NoExpansion
    /\ \E n \in 1..MaxCampaigns :
           \E f \in [1..n -> CampaignInputs] :
               campaign_metrics =
                   [i \in 1..n |-> calculate_campaign_metrics(CampaignBatch(f)[i])]
    /\ total_budget_constraint \in BudgetConstraints
    /\ budget_recs = <<>>
    /\ NoBids
    /\ NoProducts
    /\ NoNegatives
    /\ NoRun
    /\ NoJobs

HighPerformers ==
    /\ pc = "budget_high"
    /\ budget_recs' = budget_recs \o ScoreHighPerformers(campaign_metrics)
    /\ pc' = "budget_opportunity"
    /\ UNCHANGED <<campaign_metrics, total_budget_constraint, bid_vars, product_vars, negative_vars,
                 run_vars, job_vars,
                   expansion_vars>>

OpportunityCampaigns ==
    /\ pc = "budget_opportunity"
    /\ budget_recs' = budget_recs \o ScoreOpportunityCampaigns(campaign_metrics)
    /\ pc' = "budget_poor"
    /\ UNCHANGED <<campaign_metrics, total_budget_constraint, bid_vars, product_vars, negative_vars,
                 run_vars, job_vars,
                   expansion_vars>>

PoorPerformers ==
    /\ pc = "budget_poor"
    /\ budget_recs' = budget_recs \o ScorePoorPerformers(campaign_metrics)
    /\ pc' = "budget_constraint"
    /\ UNCHANGED <<campaign_metrics, total_budget_constraint, bid_vars, product_vars, negative_vars,
                 run_vars, job_vars,
                   expansion_vars>>

\* lines 68-69: a constraint of None or 0 is not applied
ApplyBudgetConstraint ==
    /\ pc = "budget_constraint"
    /\ budget_recs' =
           IF total_budget_constraint # 0
           THEN apply_budget_constraint(budget_recs, total_budget_constraint)
           ELSE budget_recs
    /\ pc' = "budget_sort"
    /\ UNCHANGED <<campaign_metrics, total_budget_constraint, bid_vars, product_vars, negative_vars,
                 run_vars, job_vars,
                   expansion_vars>>

\* lines 71-73: the sort by priority, and the return
ReturnBudgets ==
    /\ pc = "budget_sort"
    /\ budget_recs' = SortByPriority(budget_recs)
    /\ pc' = "budget_done"
    /\ UNCHANGED <<campaign_metrics, total_budget_constraint, bid_vars, product_vars, negative_vars,
                 run_vars, job_vars,
                   expansion_vars>>

NextBudgets ==
    \/ HighPerformers
    \/ OpportunityCampaigns
    \/ PoorPerformers
    \/ ApplyBudgetConstraint
    \/ ReturnBudgets

SpecBudgets == InitBudgets /\ [][NextBudgets]_vars

BudgetsReturned == pc = "budget_done"

\* The recommendations before _apply_budget_constraint, in the order the
\* three loops appended them.
ProposedBudgets ==
    ScoreHighPerformers(campaign_metrics)
        \o ScoreOpportunityCampaigns(campaign_metrics)
        \o ScorePoorPerformers(campaign_metrics)

----------------------------------------------------------------------------
(* Properties of optimize_budgets *)

\* The recommendation made for a campaign, in a list that holds one.
RecOf(recs, id) == recs[CHOOSE i \in 1..Len(recs) : recs[i].campaign_id = id]

CampaignIds(recs) == {recs[i].campaign_id : i \in 1..Len(recs)}

\* _apply_budget_constraint has been called or skipped
PastConstraint == pc \in {"budget_sort", "budget_done"}

\* the proposals of one action
RECURSIVE ProposedOf(_, _)
ProposedOf(recs, action) ==
    IF recs = <<>> THEN <<>>
    ELSE (IF Head(recs).action = action THEN <<Head(recs)>> ELSE <<>>)
         \o ProposedOf(Tail(recs), action)

\* the code scaled the increases: a constraint is set and the recommended
\* budgets of all the proposals add up to more than it
ScalingApplied ==
    /\ PastConstraint
    /\ total_budget_constraint # 0
    /\ SumBudgets(ProposedBudgets) > total_budget_constraint

\* C7: the list optimize_budgets returns is in non-decreasing order of
\* priority.
C7_SortedByPriority ==
    BudgetsReturned =>
        \A i, j \in 1..Len(budget_recs) :
            i < j => budget_recs[i].priority <= budget_recs[j].priority

\* optimize_budgets has returned, after scaling, two recommendations that the
\* loops had appended in decreasing order of priority.
C7_Witness ==
    /\ BudgetsReturned
    /\ ScalingApplied
    /\ \E i, j \in 1..Len(ProposedBudgets) :
           i < j /\ ProposedBudgets[i].priority > ProposedBudgets[j].priority

C9_DecreasesAndPausesUnchanged ==
    PastConstraint =>
        LET proposed == ProposedBudgets
        IN  /\ Len(budget_recs) = Len(proposed)
            /\ CampaignIds(budget_recs) = CampaignIds(proposed)
            /\ \A i \in 1..Len(proposed) :
                   proposed[i].action \in {"decrease", "pause"} =>
                       RecOf(budget_recs, proposed[i].campaign_id) = proposed[i]

\* The increases of a list were scaled down while the list also held a
\* decrease or a pause.
C9_Witness ==
    /\ ScalingApplied
    /\ \E i, j \in 1..Len(budget_recs) :
           /\ budget_recs[i].action = "increase"
           /\ budget_recs[i].recommended_budget
                  < RecOf(ProposedBudgets, budget_recs[i].campaign_id).recommended_budget
           /\ budget_recs[j].action \in {"decrease", "pause"}

PastPoorPerformers ==
    pc \in {"budget_constraint", "budget_sort", "budget_done"}

RecsOf(recs, id) == {i \in 1..Len(recs) : recs[i].campaign_id = id}

----------------------------------------------------------------------------
(* The bid scorer and the budget scorer *)

InitScorers == InitBids \/ InitBudgets

NextScorers == NextBids \/ NextBudgets

SpecScorers == InitScorers /\ [][NextScorers]_vars

\* C3: every 'pause' recommendation, of the bid scorer and of the budget
\* scorer, before and after the budget constraint, has the recommended value 0
\* and the change -100.0%.
C3_PauseIsZero ==
    /\ \A i \in 1..Len(bid_recs) :
           bid_recs[i].action = "pause" =>
               /\ bid_recs[i].recommended_bid = 0
               /\ bid_recs[i].bid_change_percentage = -1000
    /\ \A i \in 1..Len(budget_recs) :
           budget_recs[i].action = "pause" =>
               /\ budget_recs[i].recommended_budget = 0
               /\ budget_recs[i].budget_change_percentage = -1000

\* optimize_budgets has returned a pause in a list whose increases the
\* constraint scaled.
C3_Witness ==
    /\ BudgetsReturned
    /\ ScalingApplied
    /\ \E i, j \in 1..Len(budget_recs) :
           /\ budget_recs[i].action = "pause"
           /\ budget_recs[j].action = "increase"

----------------------------------------------------------------------------
(* data_ingestion/models.py: derived properties of a product row *)

Product_roas(p) ==
    IF p.spend > 0 THEN Rat(p.revenue, p.spend) ELSE RInt(0)

Product_margin(p) ==
    IF p.retail_price > 0
    THEN Rat(p.retail_price - p.wholesale_cost, p.retail_price)
    ELSE RInt(0)

Product_true_roas(p) ==
    IF p.spend > 0
    THEN RDiv(RMul(RInt(p.revenue), Product_margin(p)), RInt(p.spend))
    ELSE RInt(0)

\* inventory_level: Optional[int] = None
NoInventory == -1

----------------------------------------------------------------------------
(* analyzers/product_analyzer.py *)

product_target_roas == 3

min_volume_threshold == 10

high_roas_threshold == 4

low_roas_threshold == 2

volume_percentile_threshold == 70

\* a volume score that adds to the column an earlier enrichment left
volume_score_accumulating(p) ==
    (IF "volume_score" \in DOMAIN p THEN p.volume_score ELSE p.revenue)
        + p.clicks * 10

\* revenue + clicks * 0.1, in cents
volume_score(p) == p.revenue + p.clicks * 10

\* a percentile that ranks tied rows in the order of the frame
volume_percentile_by_position(df, i) ==
    LET less  == Cardinality({j \in 1..Len(df) :
                     volume_score(df[j]) < volume_score(df[i])})
        first == Cardinality({j \in 1..i :
                     volume_score(df[j]) = volume_score(df[i])})
    IN  Rat(100 * (less + first), Len(df))

\* Series.rank(pct=True) * 100: the average of the ranks of the rows equal
\* to row i, over the number of rows, as a percentage.
volume_percentile(df, i) ==
    LET less  == Cardinality({j \in 1..Len(df) :
                     volume_score(df[j]) < volume_score(df[i])})
        equal == Cardinality({j \in 1..Len(df) :
                     volume_score(df[j]) = volume_score(df[i])})
    IN  Rat(100 * (2 * less + equal + 1), 2 * Len(df))

efficiency_score(p) == RMul(Product_roas(p), Product_true_roas(p))

scalability_score(p) ==
    IF p.inventory_level # NoInventory
    THEN Rat(p.inventory_level, Max2(p.conversions, 1))
    ELSE RInt(100)

growth_potential(df, i) ==
    RAdd(RAdd(RMul(RMin(RDiv(Product_roas(df[i]), RInt(product_target_roas)),
                        RInt(2)),
                   RInt(30)),
              RMul(RSub(RInt(100), volume_percentile(df, i)), <<3, 10>>)),
         RMul(RMin(scalability_score(df[i]), RInt(100)), <<2, 5>>))

\* The five columns the enrichment adds to (or overwrites in) every row.
enrich_product_metrics(df) ==
    [i \in 1..Len(df) |->
        [sku               |-> df[i].sku,
         wholesale_cost    |-> df[i].wholesale_cost,
         retail_price      |-> df[i].retail_price,
         impressions       |-> df[i].impressions,
         clicks            |-> df[i].clicks,
         conversions       |-> df[i].conversions,
         spend             |-> df[i].spend,
         revenue           |-> df[i].revenue,
         inventory_level   |-> df[i].inventory_level,
         volume_score      |-> volume_score(df[i]),
         volume_percentile |-> volume_percentile(df, i),
         efficiency_score  |-> efficiency_score(df[i]),
         scalability_score |-> scalability_score(df[i]),
         growth_potential  |-> growth_potential(df, i)]]

AtLeast(x, n) == RLeq(RInt(n), x)

stars_index(df) ==
    {i \in 1..Len(df) :
        /\ AtLeast(Product_roas(df[i]), product_target_roas)
        /\ AtLeast(df[i].volume_percentile, volume_percentile_threshold)}

\* the potentials without the test of the percentile
potentials_index_any_volume(df) ==
    {i \in 1..Len(df) :
        /\ AtLeast(Product_roas(df[i]), product_target_roas)
        /\ df[i].clicks >= min_volume_threshold}

potentials_index(df) ==
    {i \in 1..Len(df) :
        /\ AtLeast(Product_roas(df[i]), product_target_roas)
        /\ ~AtLeast(df[i].volume_percentile, volume_percentile_threshold)
        /\ df[i].clicks >= min_volume_threshold}

workers_index(df) ==
    {i \in 1..Len(df) :
        /\ ~AtLeast(Product_roas(df[i]), product_target_roas)
        /\ AtLeast(Product_roas(df[i]), low_roas_threshold)
        /\ AtLeast(df[i].volume_percentile, volume_percentile_threshold)}

culls_index(df) ==
    {i \in 1..Len(df) :
        /\ i \notin stars_index(df)
        /\ i \notin potentials_index(df)
        /\ i \notin workers_index(df)}

\* products.loc[index].to_dict('records'): the rows of an index, in the
\* order of the frame.
RECURSIVE RowsAt(_, _)
RowsAt(df, index) ==
    IF index = {} THEN <<>>
    ELSE LET i == CHOOSE m \in index : \A k \in index : m <= k
         IN  <<df[i]>> \o RowsAt(df, index \ {i})

RECURSIVE SumInts(_)
SumInts(s) == IF s = <<>> THEN 0 ELSE Head(s) + SumInts(Tail(s))

RECURSIVE SumRats(_)
SumRats(s) == IF s = <<>> THEN RInt(0) ELSE RAdd(Head(s), SumRats(Tail(s)))

calculate_tier_metrics(tier_df) ==
    IF Len(tier_df) = 0
    THEN [count |-> 0, total_spend |-> 0, total_revenue |-> 0,
          avg_roas |-> RInt(0), avg_margin |-> RInt(0)]
    ELSE [count         |-> Len(tier_df),
          total_spend   |-> SumInts([i \in 1..Len(tier_df) |-> tier_df[i].spend]),
          total_revenue |-> SumInts([i \in 1..Len(tier_df) |-> tier_df[i].revenue]),
          avg_roas      |->
              RDiv(SumRats([i \in 1..Len(tier_df) |-> Product_roas(tier_df[i])]),
                   RInt(Len(tier_df))),
          avg_margin    |->
              RDiv(SumRats([i \in 1..Len(tier_df) |-> Product_margin(tier_df[i])]),
                   RInt(Len(tier_df)))]

segment_products(df) ==
    LET stars      == RowsAt(df, stars_index(df))
        potentials == RowsAt(df, potentials_index(df))
        workers    == RowsAt(df, workers_index(df))
        culls      == RowsAt(df, culls_index(df))
    IN  [stars        |-> stars,
         potentials   |-> potentials,
         workers      |-> workers,
         culls        |-> culls,
         tier_metrics |->
             [stars      |-> calculate_tier_metrics(stars),
              potentials |-> calculate_tier_metrics(potentials),
              workers    |-> calculate_tier_metrics(workers),
              culls      |-> calculate_tier_metrics(culls)]]

----------------------------------------------------------------------------
(* Inputs of analyze_products *)

MaxProducts == 3

\* cents; an inventory_level of NoInventory is None
ProductStats ==
    { [wholesale_cost |-> 6000, retail_price |-> 10000, impressions |-> 5000,
       clicks |-> 50, conversions |-> 5, spend |-> 10000, revenue |-> 40000,
       inventory_level |-> 20],
      [wholesale_cost |-> 6000, retail_price |-> 10000, impressions |-> 5000,
       clicks |-> 50, conversions |-> 5, spend |-> 20000, revenue |-> 40000,
       inventory_level |-> NoInventory],
      [wholesale_cost |-> 1500, retail_price |-> 2000, impressions |-> 800,
       clicks |-> 10, conversions |-> 1, spend |-> 1000, revenue |-> 3000,
       inventory_level |-> NoInventory],
      [wholesale_cost |-> 1500, retail_price |-> 2000, impressions |-> 800,
       clicks |-> 5, conversions |-> 0, spend |-> 1000, revenue |-> 3000,
       inventory_level |-> 0],
      [wholesale_cost |-> 2000, retail_price |-> 5000, impressions |-> 3000,
       clicks |-> 40, conversions |-> 2, spend |-> 4000, revenue |-> 10000,
       inventory_level |-> 500],
      [wholesale_cost |-> 2000, retail_price |-> 5000, impressions |-> 3000,
       clicks |-> 40, conversions |-> 1, spend |-> 5000, revenue |-> 5000,
       inventory_level |-> 3],
      [wholesale_cost |-> 1000, retail_price |-> 0, impressions |-> 0,
       clicks |-> 0, conversions |-> 0, spend |-> 0, revenue |-> 0,
       inventory_level |-> NoInventory] }

ProductRow(i, st) ==
    [sku |-> i,
     wholesale_cost |-> st.wholesale_cost, retail_price |-> st.retail_price,
     impressions |-> st.impressions, clicks |-> st.clicks,
     conversions |-> st.conversions, spend |-> st.spend,
     revenue |-> st.revenue, inventory_level |-> st.inventory_level]

\* The batch of the rows f picks.  The skus of a batch are distinct: a row's
\* sku is its position.
ProductBatch(f) == [i \in DOMAIN f |-> ProductRow(i, f[i])]

----------------------------------------------------------------------------
(* analyze_products as a state machine *)

InitProducts ==
    /\ pc = "products_enrich"
    /\ NoExpansion
    /\ \E n \in 1..MaxProducts :
           \E f \in [1..n -> ProductStats] : prod_df = ProductBatch(f)
    /\ segmentation = <<>>
    /\ NoBids
    /\ NoBudgets
    /\ NoNegatives
    /\ NoRun
    /\ NoJobs

\* line 50
EnrichProductMetrics ==
    /\ pc = "products_enrich"
    /\ prod_df' = enrich_product_metrics(prod_df)
    /\ pc' = "products_segment"
    /\ UNCHANGED <<segmentation, bid_vars, budget_vars, negative_vars,
                 run_vars, job_vars,
                   expansion_vars>>

\* line 52
SegmentProducts ==
    /\ pc = "products_segment"
    /\ segmentation' = segment_products(prod_df)
    /\ pc' = "products_done"
    /\ UNCHANGED <<prod_df, bid_vars, budget_vars, negative_vars,
                 run_vars, job_vars,
                   expansion_vars>>

NextProducts == EnrichProductMetrics \/ SegmentProducts

SpecProducts == InitProducts /\ [][NextProducts]_vars

ProductsSegmented == pc = "products_done"

----------------------------------------------------------------------------
(* Properties of analyze_products *)

\* The number of records of a tier that are the row of sku s.
TimesIn(tier, s) == Cardinality({k \in 1..Len(tier) : tier[k].sku = s})

TierOf(seg, s) ==
    IF TimesIn(seg.stars, s) > 0 THEN "stars"
    ELSE IF TimesIn(seg.potentials, s) > 0 THEN "potentials"
    ELSE IF TimesIn(seg.workers, s) > 0 THEN "workers"
    ELSE "culls"



\* The raw columns of a row.
RawProduct(p) ==
    [sku |-> p.sku,
     wholesale_cost |-> p.wholesale_cost, retail_price |-> p.retail_price,
     impressions |-> p.impressions, clicks |-> p.clicks,
     conversions |-> p.conversions, spend |-> p.spend,
     revenue |-> p.revenue, inventory_level |-> p.inventory_level]

\* C14: the tier of a product does not depend on the order of the batch:
\* enriched and segmented in any other order, the batch gives every product
\* the tier it has.
C14_TierOrderIndependent ==
    ProductsSegmented =>
        \A f \in Permutations(1..Len(prod_df)) :
            LET permuted == [i \in 1..Len(prod_df) |-> RawProduct(prod_df[f[i]])]
                other == segment_products(enrich_product_metrics(permuted))
            IN  \A i \in 1..Len(prod_df) :
                    TierOf(other, prod_df[i].sku)
                        = TierOf(segmentation, prod_df[i].sku)

\* A segmented batch of three with two rows of one volume score in different
\* tiers.
C14_Witness ==
    /\ ProductsSegmented
    /\ Len(prod_df) = 3
    /\ \E i, j \in 1..3 :
           /\ i < j
           /\ prod_df[i].volume_score = prod_df[j].volume_score
           /\ TierOf(segmentation, prod_df[i].sku)
                # TierOf(segmentation, prod_df[j].sku)

----------------------------------------------------------------------------
(* The enrichment run again on its own result *)

\* _enrich_product_metrics called on the frame it has already enriched
EnrichProductMetricsAgain ==
    /\ pc = "products_segment"
    /\ prod_df' = enrich_product_metrics(prod_df)
    /\ pc' = "products_enriched_twice"
    /\ UNCHANGED <<segmentation, bid_vars, budget_vars, negative_vars,
                 run_vars, job_vars,
                   expansion_vars>>

NextEnrichment == EnrichProductMetrics \/ EnrichProductMetricsAgain

SpecEnrichment == InitProducts /\ [][NextEnrichment]_vars

----------------------------------------------------------------------------
(* analyzers/negative_keyword_finder.py *)

\* (rec.negative_keyword.lower(), rec.match_type)
DedupKey(rec) == <<LowerText(rec.negative_keyword), rec.match_type>>

\* the records left in the order the detectors appended them
SortByConfidence_input_order(recs) == recs

\* sorted(recommendations, key=confidence_score, reverse=True): stable, the
\* records of one confidence keep their order.
RECURSIVE SortByConfidence(_)
SortByConfidence(recs) ==
    IF recs = <<>> THEN <<>>
    ELSE LET i == CHOOSE m \in 1..Len(recs) :
                      /\ \A k \in 1..Len(recs) :
                             recs[k].confidence_score <= recs[m].confidence_score
                      /\ \A k \in 1..(m - 1) :
                             recs[k].confidence_score < recs[m].confidence_score
         IN  <<recs[i]>>
             \o SortByConfidence([k \in 1..(Len(recs) - 1) |->
                                     IF k < i THEN recs[k] ELSE recs[k + 1]])

\* lines 271-276: rec is folded into the record that holds its key.  The
\* campaigns and the blocked terms are kept as sets (list(set(...)) fixes no
\* order); the input lists of the model stay under the ten terms of [:10].
MergeInto(existing, rec) ==
    [existing EXCEPT
        !.wasted_spend = existing.wasted_spend + rec.wasted_spend,
        !.wasted_clicks = existing.wasted_clicks + rec.wasted_clicks,
        !.affected_campaigns =
            existing.affected_campaigns \cup rec.affected_campaigns,
        !.search_terms_blocked =
            existing.search_terms_blocked \cup rec.search_terms_blocked]

\* the loop of lines 265-276 over the sorted records, deduplicated so far
RECURSIVE DedupLoop(_, _)
DedupLoop(sorted, deduplicated) ==
    IF sorted = <<>> THEN deduplicated
    ELSE LET rec == Head(sorted)
             seen == {k \in 1..Len(deduplicated) :
                         DedupKey(deduplicated[k]) = DedupKey(rec)}
         IN  IF seen = {}
             THEN DedupLoop(Tail(sorted), Append(deduplicated, rec))
             ELSE LET k == CHOOSE x \in seen : TRUE
                  IN  DedupLoop(Tail(sorted),
                          [deduplicated EXCEPT ![k] = MergeInto(@, rec)])

deduplicate_recommendations(recommendations) ==
    DedupLoop(SortByConfidence(recommendations), <<>>)

\* recommendations.sort(key=wasted_spend, reverse=True): stable
RECURSIVE SortByWastedSpend(_)
SortByWastedSpend(recs) ==
    IF recs = <<>> THEN <<>>
    ELSE LET i == CHOOSE m \in 1..Len(recs) :
                      /\ \A k \in 1..Len(recs) :
                             recs[k].wasted_spend <= recs[m].wasted_spend
                      /\ \A k \in 1..(m - 1) :
                             recs[k].wasted_spend < recs[m].wasted_spend
         IN  <<recs[i]>>
             \o SortByWastedSpend([k \in 1..(Len(recs) - 1) |->
                                      IF k < i THEN recs[k] ELSE recs[k + 1]])

----------------------------------------------------------------------------
(* Inputs of the deduplication: what the detectors appended *)

MaxNegatives == 3

NegativeTexts == { <<"b", "e", "d">>, <<"B", "e", "d">> }

\* match type, application level and confidence (in hundredths) of the
\* zero-conversion, low-quality, irrelevant and competitor detectors
DetectorKinds ==
    { [match_type |-> "exact",  application_level |-> "account",  confidence_score |-> 95],
      [match_type |-> "phrase", application_level |-> "campaign", confidence_score |-> 80],
      [match_type |-> "phrase", application_level |-> "account",  confidence_score |-> 90],
      [match_type |-> "phrase", application_level |-> "account",  confidence_score |-> 100] }

\* cents
WastedStats ==
    { [wasted_spend |-> 1000, wasted_clicks |-> 10, affected_campaigns |-> {1}],
      [wasted_spend |-> 2500, wasted_clicks |-> 60, affected_campaigns |-> {2}] }

NegativeKeywordRecommendation(text, kind, st) ==
    [negative_keyword     |-> text,
     match_type           |-> kind.match_type,
     application_level    |-> kind.application_level,
     affected_campaigns   |-> st.affected_campaigns,
     wasted_spend         |-> st.wasted_spend,
     wasted_clicks        |-> st.wasted_clicks,
     search_terms_blocked |-> {text},
     confidence_score     |-> kind.confidence_score]

DetectorInputs == NegativeTexts \X DetectorKinds \X WastedStats

\* The list of the records f picks, in the order the detectors appended them.
DetectorOutputs(f) ==
    [i \in DOMAIN f |-> NegativeKeywordRecommendation(f[i][1], f[i][2], f[i][3])]

----------------------------------------------------------------------------
(* The end of generate_negative_keywords as a state machine *)

\* neg_in keeps the records as the detectors built them; the loop updates
\* the kept records in place.
InitNegatives ==
    /\ pc = "negatives_dedup"
    /\ NoExpansion
    /\ \E n \in 1..MaxNegatives :
           \E f \in [1..n -> DetectorInputs] : neg_in = DetectorOutputs(f)
    /\ neg_recs = <<>>
    /\ NoBids
    /\ NoBudgets
    /\ NoProducts
    /\ NoRun
    /\ NoJobs

\* line 74
DeduplicateRecommendations ==
    /\ pc = "negatives_dedup"
    /\ neg_recs' = deduplicate_recommendations(neg_in)
    /\ pc' = "negatives_sort"
    /\ UNCHANGED <<neg_in, bid_vars, budget_vars, product_vars,
                 run_vars, job_vars,
                   expansion_vars>>

\* lines 76-78
ReturnNegatives ==
    /\ pc = "negatives_sort"
    /\ neg_recs' = SortByWastedSpend(neg_recs)
    /\ pc' = "negatives_done"
    /\ UNCHANGED <<neg_in, bid_vars, budget_vars, product_vars,
                 run_vars, job_vars,
                   expansion_vars>>

NextNegatives == DeduplicateRecommendations \/ ReturnNegatives

SpecNegatives == InitNegatives /\ [][NextNegatives]_vars

Deduplicated == pc \in {"negatives_sort", "negatives_done"}

----------------------------------------------------------------------------
(* Properties of the deduplication *)

\* The detector outputs that carry the key of rec.
SameKey(rec) == {k \in 1..Len(neg_in) : DedupKey(neg_in[k]) = DedupKey(rec)}

RECURSIVE SumWastedSpend(_)
SumWastedSpend(S) ==
    IF S = {} THEN 0
    ELSE LET k == CHOOSE x \in S : TRUE
         IN  neg_in[k].wasted_spend + SumWastedSpend(S \ {k})

\* C6: for every detector output, the deduplicated list holds exactly one
\* record of its (lowercased keyword, match type); the wasted_spend of that
\* record is the sum over the outputs of the key and its confidence_score is
\* their maximum.
C6_OneRecordPerKey ==
    Deduplicated =>
        \A i \in 1..Len(neg_in) :
            LET hits == {k \in 1..Len(neg_recs) :
                            DedupKey(neg_recs[k]) = DedupKey(neg_in[i])}
            IN  /\ Cardinality(hits) = 1
                /\ \A k \in hits :
                       /\ neg_recs[k].wasted_spend = SumWastedSpend(SameKey(neg_in[i]))
                       /\ \A j \in SameKey(neg_in[i]) :
                              neg_in[j].confidence_score <= neg_recs[k].confidence_score
                       /\ \E j \in SameKey(neg_in[i]) :
                              neg_in[j].confidence_score = neg_recs[k].confidence_score

\* Three outputs of one key were merged, the first of them in another letter
\* case and with a lower confidence than a later one.
C6_Witness ==
    /\ Deduplicated
    /\ Len(neg_in) = 3
    /\ Len(neg_recs) = 1
    /\ neg_in[1].negative_keyword # neg_in[2].negative_keyword
    /\ neg_in[1].confidence_score < neg_in[3].confidence_score

-----------------------------------------------------------------------------
(***************************************************************************)
(* analyzers/keyword_analyzer.py: KeywordExpansionTool                     *)
(*                                                                         *)
(* A text is a sequence of characters, a word a text without a blank.  Of  *)
(* a recommendation the model keeps keyword_text, match_type,              *)
(* opportunity_score (in hundredths) and source_search_terms; the          *)
(* suggested bid, the expected impressions and roas and the rationale are  *)
(* not read again.                                                         *)
(***************************************************************************)
expansion_target_roas == 3

min_impressions_threshold == 50

\* str.split(): the words between the blanks
RECURSIVE Split(_)
Split(t) ==
    IF t = <<>> THEN <<>>
    ELSE IF Head(t) = " " THEN Split(Tail(t))
    ELSE LET w == FirstWord(t)
         IN  <<w>> \o Split(SubSeq(t, Len(w) + 1, Len(t)))

\* ' '.join(words)
RECURSIVE Join(_)
Join(words) ==
    IF words = <<>> THEN <<>>
    ELSE IF Len(words) = 1 THEN words[1]
    ELSE words[1] \o <<" ">> \o Join(Tail(words))

PhraseStopWords ==
    { <<"w", "i", "t", "h">>,
      <<"f", "o", "r">>,
      <<"a", "n", "d">>,
      <<"t", "h", "e">> }

BroadStopWords ==
    PhraseStopWords \cup { <<"i", "n", "c", "h">>, <<"f", "e", "e", "t">> }

\* The words of the pattern of _generate_broad_variations.
PatternWords ==
    { <<"t", "a", "b", "l", "e">>,
      <<"c", "h", "a", "i", "r">>,
      <<"l", "a", "m", "p">>,
      <<"r", "u", "g">>,
      <<"s", "o", "f", "a">>,
      <<"b", "e", "d">>,
      <<"d", "e", "s", "k">>,
      <<"c", "a", "b", "i", "n", "e", "t">>,
      <<"s", "h", "e", "l", "f">>,
      <<"m", "i", "r", "r", "o", "r">> }


\* [w for w in words if len(w) > 3 and w not in stop]
CoreWords(words, stop) ==
    SelectSeq(words, LAMBDA w : Len(w) > 3 /\ w \notin stop)

\* _generate_phrase_variations: the set of the variations (list(set(...))).
generate_phrase_variations(search_term) ==
    LET words == Split(search_term)
        pairs == IF Len(words) > 2
                 THEN { Join(SubSeq(words, i, i + 1)) : i \in 1..(Len(words) - 1) }
                 ELSE {}
        core_words == CoreWords(words, PhraseStopWords)
    IN  pairs \cup (IF Len(core_words) >= 2
                    THEN {Join(SubSeq(core_words, 1, 2))}
                    ELSE {})

\* _generate_broad_variations: the first core word, the first two, and the
\* pattern words the lowered text holds as words of their own.
generate_broad_variations(search_term) ==
    LET words == Split(search_term)
        core_words == CoreWords(words, BroadStopWords)
        lowered == Split(LowerText(search_term))
    IN  (IF Len(core_words) > 0 THEN {core_words[1]} ELSE {})
        \cup (IF Len(core_words) > 1
              THEN {Join(SubSeq(core_words, 1, 2))}
              ELSE {})
        \cup { lowered[i] : i \in { j \in 1..Len(lowered) :
                                      lowered[j] \in PatternWords } }

SearchTerm_roas(st) ==
    IF st.spend > 0 THEN Rat(st.revenue, st.spend) ELSE RInt(0)

\* impression_multipliers, in tenths
impression_multipliers(match_type) ==
    CASE match_type = "exact" -> 3
      [] match_type = "phrase" -> 6
      [] match_type = "broad" -> 15

\* _calculate_opportunity_score, rounded to hundredths by
\* _create_recommendation.
calculate_opportunity_score(impressions, roas, supplier_share) ==
    LET impression_score ==
            RMul(RMin(Rat(impressions, 1000), RInt(10)), RInt(20))
        roas_score ==
            RMul(RMin(RDiv(roas, RInt(expansion_target_roas)), RInt(2)), RInt(40))
        share_opportunity_score == Rat((100 - supplier_share) * 40, 100)
    IN  RoundHalfEven(RMul(RAdd(RAdd(impression_score, roas_score),
                                share_opportunity_score), RInt(100)))

create_recommendation(search_term_data, keyword_text, match_type) ==
    LET expected_impressions ==
            (search_term_data.impressions * impression_multipliers(match_type))
                \div 10
        expected_roas ==
            RMul(SearchTerm_roas(search_term_data),
                 IF match_type = "broad" THEN <<9, 10>> ELSE RInt(1))
    IN  [keyword_text |-> keyword_text,
         match_type |-> match_type,
         opportunity_score |->
             calculate_opportunity_score(expected_impressions, expected_roas,
                                         search_term_data.supplier_share),
         source_search_terms |-> <<search_term_data.search_term>>]

\* The orders in which list(set(...)) can give the elements of S.
Orderings(S) ==
    { f \in [1..Cardinality(S) -> S] :
        \A i, j \in 1..Cardinality(S) : f[i] = f[j] => i = j }

RECURSIVE VariationsLoop(_, _, _, _)
VariationsLoop(search_term_data, variations, match_type, existing_keywords) ==
    IF variations = <<>> THEN <<>>
    ELSE LET v == Head(variations)
             keep == /\ LowerText(v) \notin existing_keywords
                     /\ match_type = "broad" => Len(Split(v)) <= 3
         IN  (IF keep
              THEN <<create_recommendation(search_term_data, v, match_type)>>
              ELSE <<>>)
             \o VariationsLoop(search_term_data, Tail(variations), match_type,
                               existing_keywords)

\* _generate_keyword_variations, with the phrase and the broad variations in
\* the orders phrases and broads.
generate_keyword_variations(search_term_data, existing_keywords, phrases, broads) ==
    LET exact_keyword == LowerText(search_term_data.search_term)
    IN  (IF exact_keyword \notin existing_keywords
         THEN <<create_recommendation(search_term_data, exact_keyword, "exact")>>
         ELSE <<>>)
        \o VariationsLoop(search_term_data, phrases, "phrase", existing_keywords)
        \o VariationsLoop(search_term_data, broads, "broad", existing_keywords)

\* The set the variations are looked up in, without the lowering.
ExistingKeywordTexts_as_written(texts) == texts

\* set(kw_df['keyword_text'].str.lower())
ExistingKeywordTexts(texts) == { LowerText(t) : t \in texts }

\* The rows of untargeted_terms.
IsUntargeted(st) ==
    /\ st.keyword_id = <<>>
    /\ \/ st.impressions >= min_impressions_threshold
       \/ st.conversions > 0

IsHighValue(st) ==
    /\ IsUntargeted(st)
    /\ \/ RLeq(RInt(expansion_target_roas), SearchTerm_roas(st))
       \/ st.conversions > 0

IsHighVolume(st) ==
    /\ IsUntargeted(st)
    /\ st.impressions >= 500
    /\ st.supplier_share <= 20

\* sorted(..., key=opportunity_score, reverse=True): stable, larger first.
RECURSIVE SortByOpportunity(_)
SortByOpportunity(s) ==
    IF s = <<>> THEN <<>>
    ELSE LET m == CHOOSE i \in 1..Len(s) :
                    /\ \A j \in 1..Len(s) :
                           s[j].opportunity_score <= s[i].opportunity_score
                    /\ \A j \in 1..(i - 1) :
                           s[j].opportunity_score < s[i].opportunity_score
         IN  <<s[m]>>
             \o SortByOpportunity(SubSeq(s, 1, m - 1) \o SubSeq(s, m + 1, Len(s)))

\* recommendations[:100]
MaxRecommendations == 100

-----------------------------------------------------------------------------
(***************************************************************************)
(* Inputs of analyze_search_terms                                          *)
(***************************************************************************)
MaxSearchTerms == 2

SearchTermTexts ==
    << <<"S", "o", "f", "a">>,
       <<"s", "o", "f", "a", " ", "b", "e", "d">>,
       <<"b", "i", "g", " ", "S", "o", "f", "a", " ", "b", "e", "d">>,
       <<"S", "o", "f", "a", "s", " ", "w", "i", "t", "h", " ", "b", "e", "d", "s">> >>

\* The texts of the existing keywords are a subset of these.
ExistingTexts ==
    { <<"S", "o", "f", "a">>,
      <<"S", "o", "f", "a", "s", " ", "B", "e", "d", "s">> }

\* spend and revenue in cents, the share in percent; <<>> is a keyword_id
\* of None
SearchTermStats ==
    << [impressions |-> 1000, clicks |-> 20, conversions |-> 2, spend |-> 1000,
        revenue |-> 5000, supplier_share |-> 10, keyword_id |-> <<>>],
       [impressions |-> 600, clicks |-> 10, conversions |-> 0, spend |-> 500,
        revenue |-> 0, supplier_share |-> 10, keyword_id |-> <<>>],
       [impressions |-> 40, clicks |-> 1, conversions |-> 0, spend |-> 50,
        revenue |-> 0, supplier_share |-> 10, keyword_id |-> <<>>],
       [impressions |-> 1000, clicks |-> 20, conversions |-> 2, spend |-> 1000,
        revenue |-> 5000, supplier_share |-> 10, keyword_id |-> <<"k1">>] >>

\* <<text, stats>>: which text is tried with which counters.
SearchTermInputs ==
    { <<1, 1>>, <<2, 1>>, <<4, 1>>, <<3, 2>>, <<1, 3>>, <<2, 4>> }

SearchTermRow(x) ==
    [search_term |-> SearchTermTexts[x[1]]] @@ SearchTermStats[x[2]]

-----------------------------------------------------------------------------
(***************************************************************************)
(* analyze_search_terms as a state machine                                 *)
(***************************************************************************)
\* analyze_search_terms is called with the search terms and the keywords.
InitExpansion ==
    /\ pc = "expansion_frames"
    /\ \E n \in 0..MaxSearchTerms :
           \E f \in [1..n -> SearchTermInputs] :
               st_df = [i \in 1..n |-> SearchTermRow(f[i])]
    /\ \E texts \in SUBSET ExistingTexts :
           existing_keyword_texts = ExistingKeywordTexts(texts)
    /\ st_i = 1
    /\ keyword_recommendations = <<>>
    /\ NoBids
    /\ NoBudgets
    /\ NoProducts
    /\ NoNegatives
    /\ NoRun
    /\ NoJobs

NotExpansion ==
    <<bid_vars, budget_vars, product_vars, negative_vars, run_vars, job_vars>>

\* Lines 30-41: the frames are built and the untargeted terms selected.
BuildExpansionFrames ==
    /\ pc = "expansion_frames"
    /\ st_df # <<>>
    /\ existing_keyword_texts # {}
    /\ pc' = "expansion_high_value"
    /\ UNCHANGED <<expansion_vars, NotExpansion>>

\* Lines 30-36 on an empty list: the frame has no column and
\* kw_df['keyword_text'] or st_df['keyword_id'] raises KeyError.
BuildExpansionFramesRaises ==
    /\ pc = "expansion_frames"
    /\ st_df = <<>> \/ existing_keyword_texts = {}
    /\ pc' = "expansion_key_error"
    /\ UNCHANGED <<expansion_vars, NotExpansion>>

\* The variations of row st_i appended, in any order of the two sets.
AppendVariations ==
    \E phrases \in Orderings(generate_phrase_variations(st_df[st_i].search_term)) :
    \E broads \in Orderings(generate_broad_variations(st_df[st_i].search_term)) :
        keyword_recommendations' =
            keyword_recommendations
                \o generate_keyword_variations(st_df[st_i],
                       existing_keyword_texts, phrases, broads)

\* Lines 45-51: one row of the loop over the high-value terms.
ExpandHighValueTerm ==
    /\ pc = "expansion_high_value"
    /\ st_i <= Len(st_df)
    /\ IF IsHighValue(st_df[st_i]) THEN AppendVariations
       ELSE UNCHANGED keyword_recommendations
    /\ st_i' = st_i + 1
    /\ UNCHANGED <<pc, st_df, existing_keyword_texts, NotExpansion>>

\* The loop over the high-value terms is over.
HighValueTermsDone ==
    /\ pc = "expansion_high_value"
    /\ st_i > Len(st_df)
    /\ st_i' = 1
    /\ pc' = "expansion_high_volume"
    /\ UNCHANGED <<st_df, existing_keyword_texts, keyword_recommendations,
                   NotExpansion>>

\* r.keyword_text.lower() for r in recommendations
RecommendedTexts ==
    { LowerText(keyword_recommendations[i].keyword_text) :
        i \in 1..Len(keyword_recommendations) }

\* Lines 53-60: one row of the loop over the high-volume terms.
ExpandHighVolumeTerm ==
    /\ pc = "expansion_high_volume"
    /\ st_i <= Len(st_df)
    /\ IF /\ IsHighVolume(st_df[st_i])
          /\ LowerText(st_df[st_i].search_term) \notin RecommendedTexts
       THEN AppendVariations
       ELSE UNCHANGED keyword_recommendations
    /\ st_i' = st_i + 1
    /\ UNCHANGED <<pc, st_df, existing_keyword_texts, NotExpansion>>

\* Lines 62-64: the sort by opportunity score and the return.
ReturnKeywordRecommendations ==
    /\ pc = "expansion_high_volume"
    /\ st_i > Len(st_df)
    /\ LET sorted == SortByOpportunity(keyword_recommendations)
       IN  keyword_recommendations' =
               SubSeq(sorted, 1,
                      IF Len(sorted) > MaxRecommendations
                      THEN MaxRecommendations ELSE Len(sorted))
    /\ pc' = "expansion_done"
    /\ UNCHANGED <<st_df, existing_keyword_texts, st_i, NotExpansion>>

NextExpansion ==
    \/ BuildExpansionFrames
    \/ BuildExpansionFramesRaises
    \/ ExpandHighValueTerm
    \/ HighValueTermsDone
    \/ ExpandHighVolumeTerm
    \/ ReturnKeywordRecommendations

SpecExpansion == InitExpansion /\ [][NextExpansion]_vars

ExpansionReturned == pc = "expansion_done"

-----------------------------------------------------------------------------
(***************************************************************************)
(* Properties of analyze_search_terms                                      *)
(***************************************************************************)
\* C23: no recommendation analyze_search_terms returns, of any match type,
\* has a keyword_text that is, letter case aside, the text of an existing
\* keyword.
C23_NoExistingKeywordRecommended ==
    \A i \in 1..Len(keyword_recommendations) :
        LowerText(keyword_recommendations[i].keyword_text)
            \notin { LowerText(t) : t \in existing_keyword_texts }

\* analyze_search_terms has returned recommendations of the three match
\* types after leaving out an exact, a phrase and a broad variation that
\* were existing keywords in another letter case.
C23_Witness ==
    /\ ExpansionReturned
    /\ \A m \in {"exact", "phrase", "broad"} :
           \E i \in 1..Len(keyword_recommendations) :
               keyword_recommendations[i].match_type = m
    /\ \E k \in 1..Len(st_df) :
           /\ IsHighValue(st_df[k])
           /\ LowerText(st_df[k].search_term) \in existing_keyword_texts
           /\ st_df[k].search_term \notin existing_keyword_texts
    /\ \E k \in 1..Len(st_df) :
           /\ IsHighValue(st_df[k])
           /\ \E v \in generate_phrase_variations(st_df[k].search_term) :
                  v # LowerText(v) /\ LowerText(v) \in existing_keyword_texts
    /\ \E k \in 1..Len(st_df) :
           /\ IsHighValue(st_df[k])
           /\ \E v \in generate_broad_variations(st_df[k].search_term) :
                  v # LowerText(v) /\ LowerText(v) \in existing_keyword_texts

-----------------------------------------------------------------------------
(***************************************************************************)
(* data_ingestion/data_validator.py: DataValidator                         *)
(*                                                                         *)
(* An identifying field (campaign_id, keyword_id, search_term, sku) is a   *)
(* tuple: <<>> is the empty string, <<"c1">> a name and <<"c1", "_", idx>>*)
(* name f"{name}_{idx}" that a duplicate receives.  A validator returns    *)
(* (is_valid, errors + warnings); main.py only logs the messages, so the   *)
(* model keeps the errors and leaves the warnings out.                     *)
(***************************************************************************)
MissingId == <<>>

\* f"{id}_{idx}"
RenamedId(id, idx) == id \o <<"_", idx>>

\* The mutant of ClampCounters: conversions are clamped before clicks.
ClampCounters_conversions_first(campaign) ==
    LET conversions == IF campaign.conversions > campaign.clicks
                       THEN campaign.clicks
                       ELSE campaign.conversions
        clicks == IF campaign.clicks > campaign.impressions
                  THEN campaign.impressions
                  ELSE campaign.clicks
    IN  [campaign EXCEPT !.clicks = clicks, !.conversions = conversions]

\* validate_campaigns, lines 30-36: clicks are clamped to impressions, then
\* conversions to the clamped clicks.
ClampCounters(campaign) ==
    LET clicks == IF campaign.clicks > campaign.impressions
                  THEN campaign.impressions
                  ELSE campaign.clicks
        conversions == IF campaign.conversions > clicks
                       THEN clicks
                       ELSE campaign.conversions
    IN  [campaign EXCEPT !.clicks = clicks, !.conversions = conversions]

\* The loop of validate_campaigns from position idx (enumerate counts from 0,
\* the sequence from 1).
RECURSIVE validate_campaigns_loop(_, _, _, _)
validate_campaigns_loop(list, idx, campaign_ids, errors) ==
    IF idx > Len(list)
    THEN [is_valid |-> errors = <<>>, errors |-> errors, entities |-> list]
    ELSE LET campaign == list[idx]
             missing == campaign.campaign_id = MissingId
             duplicate == campaign.campaign_id \in campaign_ids
             renamed ==
                 IF duplicate
                 THEN [campaign EXCEPT
                           !.campaign_id = RenamedId(@, idx - 1)]
                 ELSE campaign
         IN  validate_campaigns_loop(
                 [list EXCEPT ![idx] = ClampCounters(renamed)],
                 idx + 1,
                 IF duplicate THEN campaign_ids
                 ELSE campaign_ids \cup {campaign.campaign_id},
                 IF missing THEN Append(errors, "Campaign missing ID")
                 ELSE errors)

validate_campaigns(list) == validate_campaigns_loop(list, 1, {}, <<>>)

\* The loop of validate_keywords: a missing and a duplicate keyword_id are
\* both errors; the keywords are not changed.
RECURSIVE validate_keywords_loop(_, _, _, _)
validate_keywords_loop(list, idx, keyword_ids, errors) ==
    IF idx > Len(list)
    THEN [is_valid |-> errors = <<>>, errors |-> errors, entities |-> list]
    ELSE LET keyword == list[idx]
             e1 == IF keyword.keyword_id = MissingId
                   THEN Append(errors, "Keyword missing ID")
                   ELSE errors
             e2 == IF keyword.keyword_id \in keyword_ids
                   THEN Append(e1, "Duplicate keyword ID")
                   ELSE e1
         IN  validate_keywords_loop(list, idx + 1,
                                    keyword_ids \cup {keyword.keyword_id}, e2)

validate_keywords(list) == validate_keywords_loop(list, 1, {}, <<>>)

\* validate_search_terms, lines 69-83, for one search term: an empty one is
\* skipped, another has its supplier share capped at 100 and its missing
\* impressions estimated.
ValidateSearchTerm(st) ==
    IF st.search_term = MissingId THEN st
    ELSE LET capped == IF st.supplier_share > 100
                       THEN [st EXCEPT !.supplier_share = 100]
                       ELSE st
         IN  IF capped.clicks > 0 /\ capped.impressions = 0
             THEN [capped EXCEPT !.impressions = capped.clicks * 10]
             ELSE capped

\* validate_search_terms appends to warnings only: errors stays empty.
validate_search_terms(list) ==
    [is_valid |-> TRUE, errors |-> <<>>,
     entities |-> [i \in 1..Len(list) |-> ValidateSearchTerm(list[i])]]

\* validate_products, lines 106-110: the retail price is estimated when the
\* wholesale cost reaches it (prices in cents; the inputs hold even costs).
\* After this the margin is not negative, so lines 112-114 are not reached.
EstimateRetailPrice(product) ==
    IF /\ product.wholesale_cost >= product.retail_price
       /\ product.retail_price > 0
       /\ product.wholesale_cost > 0
    THEN [product EXCEPT !.retail_price = (product.wholesale_cost * 3) \div 2]
    ELSE product

RECURSIVE validate_products_loop(_, _, _, _)
validate_products_loop(list, idx, skus, errors) ==
    IF idx > Len(list)
    THEN [is_valid |-> errors = <<>>, errors |-> errors, entities |-> list]
    ELSE LET product == list[idx]
             missing == product.sku = MissingId
             duplicate == product.sku \in skus
             renamed ==
                 IF duplicate
                 THEN [product EXCEPT !.sku = RenamedId(@, idx - 1)]
                 ELSE product
         IN  validate_products_loop(
                 [list EXCEPT ![idx] = EstimateRetailPrice(renamed)],
                 idx + 1,
                 IF duplicate THEN skus ELSE skus \cup {product.sku},
                 IF missing THEN Append(errors, "Product missing SKU")
                 ELSE errors)

validate_products(list) == validate_products_loop(list, 1, {}, <<>>)

\* validate_cross_references returns True with warnings only.
validate_cross_references(cs, ks, sts) ==
    [is_valid |-> TRUE, errors |-> <<>>]

-----------------------------------------------------------------------------
(***************************************************************************)
(* main.py: WSPOptimizer.run_full_optimization                             *)
(***************************************************************************)
\* The steps after the validation, in the order of lines 82-140.
RunSteps ==
    <<"load_data", "keyword_expansion", "bid_optimization",
      "budget_optimization", "negative_keywords", "product_analysis",
      "generate_outputs", "summary_report">>

Analyzers ==
    {"keyword_expansion", "bid_optimization", "budget_optimization",
     "negative_keywords", "product_analysis"}

Outputs == {"generate_outputs", "summary_report"}

-----------------------------------------------------------------------------
(***************************************************************************)
(* Inputs of run_full_optimization                                         *)
(***************************************************************************)
\* The batch holds at most MaxEntities entities over its four lists.
MaxEntities == 3

ParsedCampaigns ==
    { [campaign_id |-> id, impressions |-> c[1], clicks |-> c[2],
       conversions |-> c[3]] :
        id \in {MissingId, <<"c1">>},
        c \in {<<10, 5, 2>>, <<5, 10, 8>>, <<5, 3, 4>>, <<0, 2, 1>>} }
    \cup
    \* a campaign whose id is "c1_1" in the report
    { [campaign_id |-> <<"c1", "_", 1>>, impressions |-> 10, clicks |-> 5,
       conversions |-> 2] }

ParsedKeywords == { [keyword_id |-> id] : id \in {MissingId, <<"k1">>} }

ParsedSearchTerms ==
    { [search_term |-> MissingId, impressions |-> 0, clicks |-> 0,
       supplier_share |-> 0],
      [search_term |-> <<"sofa">>, impressions |-> 0, clicks |-> 5,
       supplier_share |-> 120],
      [search_term |-> <<"sofa">>, impressions |-> 100, clicks |-> 5,
       supplier_share |-> 40] }

ParsedProducts ==
    { [sku |-> MissingId, wholesale_cost |-> 1000, retail_price |-> 3000],
      [sku |-> <<"p1">>, wholesale_cost |-> 1000, retail_price |-> 3000],
      [sku |-> <<"p1">>, wholesale_cost |-> 4000, retail_price |-> 3000] }

Lists(S, n) == UNION { [1..k -> S] : k \in 0..n }

-----------------------------------------------------------------------------
(***************************************************************************)
(* run_full_optimization as a state machine                                *)
(***************************************************************************)
\* Lines 57-60: the four reports are parsed.
InitRun ==
    /\ pc = "run_validate"
    /\ NoExpansion
    /\ \E nc \in 0..MaxEntities : \E nk \in 0..(MaxEntities - nc) :
       \E ns \in 0..(MaxEntities - nc - nk) :
       \E np \in 0..(MaxEntities - nc - nk - ns) :
           /\ campaigns \in [1..nc -> ParsedCampaigns]
           /\ keywords \in [1..nk -> ParsedKeywords]
           /\ search_terms \in [1..ns -> ParsedSearchTerms]
           /\ products \in [1..np -> ParsedProducts]
    /\ validations = <<>>
    /\ steps_run = <<>>
    /\ NoBids
    /\ NoBudgets
    /\ NoProducts
    /\ NoNegatives
    /\ NoJobs

\* Lines 64-70: the five validations are all run before any is looked at.
ValidateData ==
    /\ pc = "run_validate"
    /\ LET vc == validate_campaigns(campaigns)
           vk == validate_keywords(keywords)
           vs == validate_search_terms(search_terms)
           vp == validate_products(products)
           vx == validate_cross_references(vc.entities, vk.entities,
                                           vs.entities)
       IN  /\ campaigns' = vc.entities
           /\ keywords' = vk.entities
           /\ search_terms' = vs.entities
           /\ products' = vp.entities
           /\ validations' =
                  [i \in 1..5 |->
                      [is_valid |-> <<vc, vk, vs, vp, vx>>[i].is_valid,
                       errors |-> <<vc, vk, vs, vp, vx>>[i].errors]]
    /\ pc' = "run_check"
    /\ UNCHANGED <<steps_run, bid_vars, budget_vars, product_vars,
                   negative_vars, job_vars,
                   expansion_vars>>

AllValid == \A i \in 1..Len(validations) : validations[i].is_valid

\* Lines 72-75: the first invalid validation raises ValueError.
RaiseValidationFailed ==
    /\ pc = "run_check"
    /\ ~AllValid
    /\ pc' = "run_value_error"
    /\ UNCHANGED <<run_vars, bid_vars, budget_vars, product_vars,
                   negative_vars, job_vars,
                   expansion_vars>>

\* Lines 72-78: every validation is valid, the run goes on.
ValidationPassed ==
    /\ pc = "run_check"
    /\ AllValid
    /\ pc' = "run_steps"
    /\ UNCHANGED <<run_vars, bid_vars, budget_vars, product_vars,
                   negative_vars, job_vars,
                   expansion_vars>>

\* Lines 82-140: the next step of the run.
RunStep ==
    /\ pc = "run_steps"
    /\ Len(steps_run) < Len(RunSteps)
    /\ steps_run' = Append(steps_run, RunSteps[Len(steps_run) + 1])
    /\ pc' = IF Len(steps_run) + 1 = Len(RunSteps) THEN "run_done"
             ELSE "run_steps"
    /\ UNCHANGED <<campaigns, keywords, search_terms, products, validations,
                   bid_vars, budget_vars, product_vars, negative_vars,
                   job_vars,
                   expansion_vars>>

NextRun == ValidateData \/ RaiseValidationFailed \/ ValidationPassed \/ RunStep

SpecRun == InitRun /\ [][NextRun]_vars

-----------------------------------------------------------------------------
(***************************************************************************)
(* Properties of run_full_optimization                                     *)
(***************************************************************************)
\* Some entity of the batch has an empty identifying field.  The first
\* entity with a given identifier is never renamed, so an empty identifier
\* of the parsed batch is still there after the validation.
MissingIdentifyingField ==
    \/ \E i \in 1..Len(campaigns) : campaigns[i].campaign_id = MissingId
    \/ \E i \in 1..Len(keywords) : keywords[i].keyword_id = MissingId
    \/ \E i \in 1..Len(search_terms) : search_terms[i].search_term = MissingId
    \/ \E i \in 1..Len(products) : products[i].sku = MissingId

\* C17: when a campaign, keyword, search term or product of the batch has no
\* identifying field, the run raises before any analyzer has run and before
\* any output is generated: it never gets past the validation.
C17_FailFastOnMissingId ==
    MissingIdentifyingField =>
        /\ pc \in {"run_validate", "run_check", "run_value_error"}
        /\ steps_run = <<>>

Validated == pc # "run_validate"

\* C19: after validate_campaigns has returned, every campaign of the list has
\* conversions <= clicks <= impressions.
C19_CountersOrdered ==
    Validated =>
        \A i \in 1..Len(campaigns) :
            /\ campaigns[i].conversions <= campaigns[i].clicks
            /\ campaigns[i].clicks <= campaigns[i].impressions

\* A validated campaign whose clicks were clamped to its impressions and whose
\* conversions were above the clamped clicks.
C19_Witness ==
    /\ Validated
    /\ \E i \in 1..Len(campaigns) :
           /\ campaigns[i].impressions = 5
           /\ campaigns[i].clicks = 5
           /\ campaigns[i].conversions = 5

\* C24: after validate_campaigns has returned, no two campaigns of the list
\* have the same campaign_id, whatever the list was (several duplicates, ids
\* that already end in _<index>).
C24_CampaignIdsUnique ==
    Validated =>
        \A i, j \in 1..Len(campaigns) :
            campaigns[i].campaign_id = campaigns[j].campaign_id => i = j

-----------------------------------------------------------------------------
(***************************************************************************)
(* app.py: the jobs of the web application                                 *)
(*                                                                         *)
(* upload_files starts one thread per job, each running run_optimization.  *)
(* A file is [name, content]: content is the job whose inputs it was made  *)
(* from.  reports/bulk_uploads is the directory every WSPOptimizer writes  *)
(* to (WayfairBulkUploadFormatter's default output_dir); it is held oldest *)
(* file first, the order of the sort by mtime in save_results.             *)
(***************************************************************************)
Jobs == {"job_a", "job_b"}

\* The files _generate_outputs writes, in its order: a CSV for each list of
\* recommendations that is not empty, then the master workbook.
OutputOrder ==
    <<"keyword_upload", "bid_changes", "negative_keywords", "budget_changes",
      "wayfair_bulk_upload">>

OutputsOf(input) ==
    SelectSeq(OutputOrder,
              LAMBDA kind : kind = "wayfair_bulk_upload" \/ kind \in input.kinds)

\* A CSV is named after the second it is written in, the master workbook
\* after the day (the jobs run on the same day).
OutputName(kind) ==
    IF kind = "wayfair_bulk_upload" THEN <<kind>> ELSE <<kind, now>>

\* Writing a file replaces the file of that name and makes it the newest.
WriteFile(dir, file) ==
    SelectSeq(dir, LAMBDA f : f.name # file.name) \o <<file>>

\* files[-5:]
LastFiles == 5

Newest(dir) ==
    SubSeq(dir, IF Len(dir) > LastFiles THEN Len(dir) - LastFiles + 1 ELSE 1,
           Len(dir))

\* shutil.copy2 of each listed file into the folder
CopyInto(folder, files) ==
    { f \in folder : \A i \in 1..Len(files) : files[i].name # f.name }
        \cup { files[i] : i \in 1..Len(files) }

\* save_results: summary.json, the newest files of reports/bulk_uploads, the
\* dashboard.
save_results(job_id, folder) ==
    CopyInto(CopyInto(folder, <<[name |-> <<"summary.json">>, content |-> job_id]>>),
             Newest(bulk_uploads))
        \cup {[name |-> <<"dashboard.html">>, content |-> job_id]}

-----------------------------------------------------------------------------
(***************************************************************************)
(* Inputs of the jobs                                                      *)
(***************************************************************************)
\* The clock advances at most MaxClock seconds while the jobs run.
MaxClock == 1

\* What a job's uploaded files hold: whether they pass the validation, and
\* which lists of recommendations they lead to.
JobInputs ==
    { [valid |-> v, kinds |-> k] :
        v \in BOOLEAN,
        k \in { {"bid_changes"}, {"bid_changes", "budget_changes"} } }

At(step, i) == [step |-> step, i |-> i]

-----------------------------------------------------------------------------
(***************************************************************************)
(* The jobs as a state machine                                             *)
(***************************************************************************)
\* upload_files, lines 67-102, for each job.
InitJobs ==
    /\ pc = "jobs"
    /\ NoExpansion
    /\ job_queue \in [Jobs -> JobInputs]
    /\ job_status = [j \in Jobs |-> "queued"]
    /\ job_at = [j \in Jobs |-> At("queued", 0)]
    /\ bulk_uploads = <<>>
    /\ results_folder = [j \in Jobs |-> {}]
    /\ now = 0
    /\ NoBids
    /\ NoBudgets
    /\ NoProducts
    /\ NoNegatives
    /\ NoRun

OtherVars ==
    <<pc, bid_vars, budget_vars, product_vars, negative_vars, run_vars>>

\* run_optimization, lines 181-194.
StartJob(j) ==
    /\ job_at[j].step = "queued"
    /\ job_status' = [job_status EXCEPT ![j] = "processing"]
    /\ job_at' = [job_at EXCEPT ![j] = At("optimize", 0)]
    /\ UNCHANGED <<job_queue, bulk_uploads, results_folder, now, OtherVars,
                   expansion_vars>>

\* The mutant of JobFails: the exception ends the thread and no except
\* clause sets the status.
JobFails_without_except(j) ==
    /\ job_at[j].step = "optimize"
    /\ ~job_queue[j].valid
    /\ job_at' = [job_at EXCEPT ![j] = At("returned", 0)]
    /\ UNCHANGED <<job_queue, job_status, bulk_uploads, results_folder, now,
                   OtherVars, expansion_vars>>

\* Line 197 raising (the validation fails), then lines 213-216.
JobFails(j) ==
    /\ job_at[j].step = "optimize"
    /\ ~job_queue[j].valid
    /\ job_status' = [job_status EXCEPT ![j] = "failed"]
    /\ job_at' = [job_at EXCEPT ![j] = At("returned", 0)]
    /\ UNCHANGED <<job_queue, bulk_uploads, results_folder, now, OtherVars,
                   expansion_vars>>

\* Line 197 up to _generate_outputs: the analyzers have run.
JobAnalyzes(j) ==
    /\ job_at[j].step = "optimize"
    /\ job_queue[j].valid
    /\ job_at' = [job_at EXCEPT ![j] = At("outputs", 1)]
    /\ UNCHANGED <<job_queue, job_status, bulk_uploads, results_folder, now,
                   OtherVars,
                   expansion_vars>>

\* One file of _generate_outputs written to reports/bulk_uploads.
GenerateOutput(j) ==
    /\ job_at[j].step = "outputs"
    /\ LET outputs == OutputsOf(job_queue[j])
           i == job_at[j].i
       IN  /\ bulk_uploads' =
                  WriteFile(bulk_uploads,
                            [name |-> OutputName(outputs[i]), content |-> j])
           /\ job_at' = [job_at EXCEPT ![j] =
                            IF i = Len(outputs) THEN At("save_results", 0)
                            ELSE At("outputs", i + 1)]
    /\ UNCHANGED <<job_queue, job_status, results_folder, now, OtherVars,
                   expansion_vars>>

\* Lines 204-210: save_results, then the job is completed.
SaveResults(j) ==
    /\ job_at[j].step = "save_results"
    /\ results_folder' =
           [results_folder EXCEPT ![j] = save_results(j, results_folder[j])]
    /\ job_status' = [job_status EXCEPT ![j] = "completed"]
    /\ job_at' = [job_at EXCEPT ![j] = At("results_url", 0)]
    /\ UNCHANGED <<job_queue, bulk_uploads, now, OtherVars,
                   expansion_vars>>

\* Line 211, url_for returning: the results_url is stored and the thread
\* ends.
ResultsUrlBuilt(j) ==
    /\ job_at[j].step = "results_url"
    /\ job_at' = [job_at EXCEPT ![j] = At("returned", 0)]
    /\ UNCHANGED <<job_queue, job_status, bulk_uploads, results_folder, now,
                   OtherVars, expansion_vars>>

\* Line 211, url_for raising, then lines 213-216.  The worker thread runs
\* outside every request and application context of Flask, where url_for
\* raises RuntimeError; the except clause of line 213 catches it.
ResultsUrlRaises(j) ==
    /\ job_at[j].step = "results_url"
    /\ job_status' = [job_status EXCEPT ![j] = "failed"]
    /\ job_at' = [job_at EXCEPT ![j] = At("returned", 0)]
    /\ UNCHANGED <<job_queue, bulk_uploads, results_folder, now, OtherVars,
                   expansion_vars>>

\* A second passes.
Tick ==
    /\ pc = "jobs"
    /\ now < MaxClock
    /\ now' = now + 1
    /\ UNCHANGED <<job_queue, job_status, job_at, bulk_uploads,
                   results_folder, OtherVars,
                   expansion_vars>>

NextJobs ==
    \/ \E j \in Jobs : StartJob(j)
    \/ \E j \in Jobs : JobFails(j)
    \/ \E j \in Jobs : JobAnalyzes(j)
    \/ \E j \in Jobs : GenerateOutput(j)
    \/ \E j \in Jobs : SaveResults(j)
    \/ \E j \in Jobs : ResultsUrlBuilt(j)
    \/ \E j \in Jobs : ResultsUrlRaises(j)
    \/ Tick

SpecJobs == InitJobs /\ [][NextJobs]_vars

\* The steps of the worker thread of one job.
RunOptimization(j) ==
    \/ StartJob(j)
    \/ JobFails(j)
    \/ JobAnalyzes(j)
    \/ GenerateOutput(j)
    \/ SaveResults(j)
    \/ ResultsUrlBuilt(j)
    \/ ResultsUrlRaises(j)

\* The jobs when every worker thread that can take a step eventually takes
\* one (threading.Thread started at line 101).
SpecJobsFair == SpecJobs /\ \A j \in Jobs : WF_vars(RunOptimization(j))

-----------------------------------------------------------------------------
StatusRank(status) ==
    CASE status = "queued" -> 0
      [] status = "processing" -> 1
      [] status \in {"completed", "failed"} -> 2

JobReturned(j) == job_at[j].step = "returned"

\* C30: with worker threads scheduled fairly, every job accepted by
\* upload_files eventually has the status completed or failed, whether the
\* pipeline returns or raises.
C30_EveryJobEnds ==
    \A j \in Jobs : <>(job_status[j] \in {"completed", "failed"})

\* Both threads have ended, one job after the pipeline raised and the other
\* after it returned.
C30_Witness ==
    \E j, k \in Jobs :
        /\ JobReturned(j) /\ ~job_queue[j].valid /\ job_status[j] = "failed"
        /\ JobReturned(k) /\ job_queue[k].valid /\ job_status[k] = "completed"

====
